---- MODULE Spec2Model ----
(***************************************************************************)
(* State-machine model of the synchronous MySQL client connection          *)
(* (src/src/conn/mod.rs): struct ConnInner, the command layer, the          *)
(* prepared-statement cache coupling, reset/reconnect and Drop.            *)
(*                                                                         *)
(* The server and the network are the environment: every reply the code    *)
(* reads is an input of the action that reads it.  Option<T> is modelled   *)
(* as a sequence of length at most one (None == <<>>, Some(x) == <<x>>).   *)
(***************************************************************************)
EXTENDS Integers, Sequences, FiniteSets, TLC

(* ------------------------------ bounds -------------------------------- *)

\* largest stmt_cache_size a connection is created with
MaxCap == 2
\* number of distinct (rewritten) query texts the caller prepares
NumQueries == 3
\* number of COM_STMT_PREPARE commands the server answers with a statement
MaxStmtId == 3
\* number of server sessions a connection goes through (one more than the
\* number of reset() calls)
MaxConns == 2
\* number of distinct statements the caller keeps a handle to
MaxHandles == 1
\* number of commands the caller attempts on a link that is down
MaxDeadOps == 1
\* number of rows the server sends in one result set
MaxRows == 1
\* number of result sets the server sends in reply to one command
MaxSets == 2
\* number of long-data chunks one byte parameter of an execute is sent in
MaxChunks == 2
\* number of parameters of a prepared statement
MaxParams == 2
\* number of init commands in the Opts
MaxInit == 2
\* number of data frames a LOCAL INFILE handler writes
MaxFrames == 2
\* number of Statement handles the caller of prep keeps
MaxStatements == 2
\* number of threads, each with a connection of its own, that share one
\* LOCAL INFILE handler
NumThreads == 3
Threads == 1 .. NumThreads

(* --------------------------- basic values ----------------------------- *)

None == <<>>

Some(x) == <<x>>

IsSome(o) == o # <<>>

Unwrap(o) == o[1]

Queries == 1 .. NumQueries

\* consts::Command opcodes used by the command layer (first byte of a body)
Command ==
    [ COM_QUIT |-> 1, COM_INIT_DB |-> 2, COM_QUERY |-> 3, COM_PING |-> 14,
      COM_STMT_PREPARE |-> 22, COM_STMT_EXECUTE |-> 23,
      COM_STMT_SEND_LONG_DATA |-> 24, COM_STMT_CLOSE |-> 25,
      COM_RESET_CONNECTION |-> 31 ]

\* first byte of the packets the code dispatches on
OkByte == 0
\* first byte of an ERR packet (read_packet)
ErrByte == 255
\* first byte of an EOF / result-set terminator packet
EofByte == 254
\* stands for a read that yields no packet before the read deadline
TimedOutByte == 256
\* first byte of a LOCAL INFILE request
LocalInfileByte == 251

\* (server_version, mariadb_server_version) pairs a handshake may carry, as
\* parsed by HandshakePacket::server_version_parsed /
\* maria_db_server_version_parsed: each an Option<(u16, u16, u16)>
ServerVersions ==
    { <<None, None>>,
      <<Some(<<5, 7, 3>>), None>>,
      <<Some(<<5, 7, 4>>), None>>,
      <<Some(<<5, 5, 5>>), Some(<<10, 2, 6>>)>>,
      <<Some(<<5, 5, 5>>), Some(<<10, 2, 7>>)>> }

\* Rust's derived PartialOrd on tuples: lexicographic comparison
TupleGt(a, b) ==
    \/ a[1] > b[1]
    \/ a[1] = b[1] /\ a[2] > b[2]
    \/ a[1] = b[1] /\ a[2] = b[2] /\ a[3] > b[3]

TupleGe(a, b) == a = b \/ TupleGt(a, b)

(* ----------------------------- variables ------------------------------ *)

VARIABLES
    \* ConnInner
    opts,                   \* Opts: what do_handshake and get_client_flags read
    stmt_cache_size,        \* opts.get_stmt_cache_size()
    stream,                 \* Option<MySyncFramed<Stream>>: None, Some("tcp")
                            \* or, once made secure, Some("tls")
    stmt_cache,             \* StmtCache entries, least recently used first
    cache_cap,              \* StmtCache.cap of the cache currently installed
    server_version,
    mariadb_server_version,
    ok_packet,              \* Option<OkPacket>
    capability_flags,
    connection_id,
    status_flags,
    character_set,
    last_command,
    connected,
    has_results,
    \* codec (inside stream)
    seq_id,
    max_allowed_packet,
    \* environment: network and server
    link,                   \* "up": the peer answers; "down": every write fails
    srv_stmts,              \* statement ids the server session holds prepared
    srv_next_id,            \* next statement id the server will assign
    srv_prepared,           \* statements the server has prepared so far
    srv_session,            \* number of the server session (epoch of its state)
    srv_conn_count,         \* connection ids handed out so far
    srv_version,            \* the version pair the server announces
    \* environment: the LOCAL INFILE handler other connections share
    mutex,                  \* LocalInfileHandler.0: the thread that holds it
    poisoned,               \* a thread has panicked while it held the mutex
    pc,                     \* where each thread is in send_local_infile
    \* caller
    handles,                \* statements the caller still holds a handle to
    dropped,                \* the Conn has been dropped
    panicked,               \* an expect() on an absent stream has panicked
    dead_ops,               \* commands attempted while the link was down
    result,                 \* the QueryResult that borrows the Conn, if any
    \* history of the last operation
    wire,                   \* packets the last operation wrote, in order
    reads,                  \* number of packets the last operation read
    last_op,                \* what the last operation was and how it ended
    seen_status,            \* status bitfield of the last OK or EOF packet read
    \* history of the run of preps since the connection was made
    preps_only,             \* no prep has failed, no close, reset or drop has run
    recent,                 \* queries of the preps, most recently used last
    n_prepare_ok,           \* COM_STMT_PREPARE exchanges answered prepare-ok
    n_close_by_prep         \* COM_STMT_CLOSE commands written by prep

conn_vars ==
    << opts, stmt_cache_size, stream, stmt_cache, cache_cap, server_version,
       mariadb_server_version, ok_packet, capability_flags, connection_id,
       status_flags, character_set, last_command, connected, has_results,
       seq_id, max_allowed_packet >>

handler_vars == << mutex, poisoned, pc >>

\* a thread that is not in send_local_infile
Idle == [at |-> "idle", frames |-> 0]

env_vars_but_link ==
    << srv_stmts, srv_next_id, srv_prepared, srv_session, srv_conn_count,
       srv_version, handler_vars >>

env_vars ==
    << link, srv_stmts, srv_next_id, srv_prepared, srv_session, srv_conn_count,
       srv_version, handler_vars >>

caller_vars == << handles, dropped, panicked, dead_ops, result >>

prep_vars == << preps_only, recent, n_prepare_ok, n_close_by_prep >>

hist_vars == << wire, reads, last_op, seen_status, prep_vars >>

vars == << conn_vars, env_vars, caller_vars, hist_vars >>

\* all but the shared handler and the threads
other_vars ==
    << conn_vars, link, srv_stmts, srv_next_id, srv_prepared, srv_session,
       srv_conn_count, srv_version, caller_vars, hist_vars >>

(* -------------------- StmtCache (conn/stmt_cache.rs) ------------------- *)
(* A bounded ordered map from query text to a shared statement; the       *)
(* sequence holds the entries least recently used first.                  *)

\* StmtCache::new(cap)
StmtCacheNew == <<>>

\* StmtCache::contains_query
contains_query(cache, query) == \E i \in DOMAIN cache : cache[i].query = query

CacheIndex(cache, query) == CHOOSE i \in DOMAIN cache : cache[i].query = query

\* StmtCache::by_query, the entry found (None on a miss)
by_query(cache, query) ==
    IF contains_query(cache, query)
    THEN Some(cache[CacheIndex(cache, query)])
    ELSE None

\* StmtCache::by_query, the cache afterwards: a hit moves the entry to the
\* most-recently-used position
by_query_touch(cache, query) ==
    IF contains_query(cache, query)
    THEN LET i == CacheIndex(cache, query)
         IN  Append(SubSeq(cache, 1, i - 1) \o SubSeq(cache, i + 1, Len(cache)),
                    cache[i])
    ELSE cache

\* StmtCache::put: insert as most recently used; an insert that exceeds the
\* capacity evicts the least recently used entry and returns its statement.
\* Capacity zero stores nothing.
put(cache, cap, query, stmt) ==
    IF cap = 0
    THEN [cache |-> cache, evicted |-> None]
    ELSE LET grown == Append(cache, [query |-> query, stmt |-> stmt])
         IN  IF Len(grown) > cap
             THEN [cache |-> Tail(grown), evicted |-> Some(grown[1].stmt)]
             ELSE [cache |-> grown, evicted |-> None]

\* StmtCache::remove(id)
remove(cache, id) == SelectSeq(cache, LAMBDA e : e.stmt.id # id)

\* StmtCache::clear
clear(cache) == <<>>

\* StmtCache::into_iter, the statements in the order Drop closes them
into_iter(cache) == [i \in DOMAIN cache |-> cache[i].stmt]

(* --------------------- the connection as a value ---------------------- *)
(* The handlers below are functions from a connection value (ConnInner,   *)
(* its codec, the link it talks over, and the packets written so far) to  *)
(* the connection value after the call.  err = "" is Ok(..).              *)

Self ==
    [ opts |-> opts, stmt_cache_size |-> stmt_cache_size, stream |-> stream,
      stmt_cache |-> stmt_cache, cache_cap |-> cache_cap,
      server_version |-> server_version,
      mariadb_server_version |-> mariadb_server_version,
      ok_packet |-> ok_packet, capability_flags |-> capability_flags,
      connection_id |-> connection_id, status_flags |-> status_flags,
      character_set |-> character_set, last_command |-> last_command,
      connected |-> connected, has_results |-> has_results,
      seq_id |-> seq_id, max_allowed_packet |-> max_allowed_packet,
      link |-> link, wire |-> <<>>, reads |-> 0, err |-> "",
      panicked |-> FALSE, ret |-> None, seen_status |-> seen_status ]

Failed(c) == c.err # "" \/ c.panicked

\* Err(e)
Fail(c, e) == [c EXCEPT !.err = e]

\* a panic: expect("incomplete connection") on an absent stream
Panic(c) == [c EXCEPT !.panicked = TRUE]

\* Result::or_else / `let _ =`: the error is consumed
Recover(c) == [c EXCEPT !.err = ""]

Install(c) ==
    /\ opts' = c.opts
    /\ stmt_cache_size' = c.stmt_cache_size
    /\ stream' = c.stream
    /\ stmt_cache' = c.stmt_cache
    /\ cache_cap' = c.cache_cap
    /\ server_version' = c.server_version
    /\ mariadb_server_version' = c.mariadb_server_version
    /\ ok_packet' = c.ok_packet
    /\ capability_flags' = c.capability_flags
    /\ connection_id' = c.connection_id
    /\ status_flags' = c.status_flags
    /\ character_set' = c.character_set
    /\ last_command' = c.last_command
    /\ connected' = c.connected
    /\ has_results' = c.has_results
    /\ seq_id' = c.seq_id
    /\ max_allowed_packet' = c.max_allowed_packet
    /\ link' = c.link
    /\ wire' = c.wire
    /\ reads' = c.reads
    /\ panicked' = c.panicked
    /\ seen_status' = c.seen_status

(* ------------------------- packet layer ------------------------------- *)

\* the `?` operator: go on with F on Ok, return early on Err (or a panic)
Try(c, F(_)) == IF Failed(c) THEN c ELSE F(c)

\* Conn::stream_mut / stream_ref: expect() panics on None
stream_mut(c) == IF c.stream = None THEN Panic(c) ELSE c

\* Conn::reset_seq_id
reset_seq_id(c) == Try(stream_mut(c), LAMBDA c1 : [c1 EXCEPT !.seq_id = 0])

\* a packet as the wire log keeps it: with the sequence id of its frame, and
\* with last_command, has_results and the transport at the time of the write
Sent(c, data) ==
    [kind |-> data.kind, cmd |-> data.cmd, arg |-> data.arg, seq |-> c.seq_id,
     last_command |-> c.last_command, has_results |-> c.has_results,
     stream |-> Unwrap(c.stream)]

\* Conn::write_packet: one frame leaves, the sequence id advances; the send
\* fails with an I/O error when the link is down
write_packet(c, data) ==
    Try(stream_mut(c), LAMBDA c1 :
        IF c1.link = "down" THEN Fail(c1, "IoError")
        ELSE [c1 EXCEPT !.wire = Append(@, Sent(c1, data)),
                        !.seq_id = (@ + 1) % 256])

\* Conn::handle_ok
handle_ok(c, op) ==
    [c EXCEPT !.status_flags = op.status_flags, !.ok_packet = Some(op)]

\* Conn::handle_err
handle_err(c) == [c EXCEPT !.has_results = FALSE, !.ok_packet = None]

\* the status bitfield of the packet just read, if it is an OK or an EOF
Seen(c, pkt) ==
    IF pkt.ok # None
    THEN [c EXCEPT !.seen_status = Unwrap(pkt.ok).status_flags]
    ELSE c

\* Conn::read_packet: `pkt` is what the stream yields: None for a closed
\* stream, TimedOut for a read deadline that passes on a stream that stays
\* open (both an I/O error); an ERR packet is turned into Err(MySqlError)
read_packet(c, pkt) ==
    Try(stream_mut(c), LAMBDA c1 :
        IF pkt = None THEN Fail([c1 EXCEPT !.link = "down"], "IoError")
        ELSE IF Unwrap(pkt).b0 = TimedOutByte THEN Fail(c1, "IoError")
        ELSE IF Unwrap(pkt).b0 = ErrByte
        THEN Fail(handle_err([c1 EXCEPT !.seq_id = (@ + 1) % 256,
                                        !.reads = @ + 1]), "MySqlError")
        ELSE Seen([c1 EXCEPT !.seq_id = (@ + 1) % 256, !.reads = @ + 1],
                  Unwrap(pkt)))

\* a command body: its opcode byte and its argument (query text, statement id)
Body(cmd, data) == [kind |-> "command", cmd |-> cmd, arg |-> data]

\* a packet that is not a command (handshake response, authentication data)
Raw(kind) == [kind |-> kind, cmd |-> 0, arg |-> 0]

\* a write_command_raw that keeps the running sequence id
write_command_raw_no_reset(c, body) ==
    write_packet([c EXCEPT !.last_command = body.cmd], body)

\* Conn::write_command_raw
write_command_raw(c, body) ==
    Try(reset_seq_id(c), LAMBDA c1 :
        write_packet([c1 EXCEPT !.last_command = body.cmd], body))

\* Conn::write_command
write_command(c, cmd, data) == write_command_raw(c, Body(cmd, data))

(* ------------------------ packets the server sends -------------------- *)

\* OkPacket as the connection keeps it
OkPacket(affected_rows, flags) ==
    [affected_rows |-> affected_rows, status_flags |-> flags]

\* an OK packet on the wire; ok = None is a payload parse_ok_packet rejects
OkPkt(affected_rows, flags) ==
    [b0 |-> OkByte, ok |-> Some(OkPacket(affected_rows, flags))]

MalformedOkPkt == [b0 |-> OkByte, ok |-> None]

ErrPkt == [b0 |-> ErrByte, ok |-> None]

\* a packet that is neither OK nor ERR
OtherPkt == [b0 |-> EofByte, ok |-> None]

\* the EOF packet ending a result set: it has no affected-rows field, so
\* parse_ok_packet(.., ResultSetTerminator) yields affected_rows = 0
TerminatorPkt(flags) ==
    [b0 |-> EofByte, ok |-> Some(OkPacket(0, flags)), len |-> 5]

\* a packet of 253 bytes that begins with 0xfe and parses as the terminator
LongTerminatorPkt(flags) == [TerminatorPkt(flags) EXCEPT !.len = 253]

\* the reply to COM_STMT_PREPARE; sess is the server session that issued it
PrepareOkPkt(id, sess) ==
    [b0 |-> OkByte, ok |-> None, statement_id |-> id, num_params |-> 0,
     num_columns |-> 0, sess |-> sess]

\* the reply to COM_STMT_PREPARE of a statement with parameters and columns
PrepareOkPktWith(id, sess, num_params, num_columns) ==
    [b0 |-> OkByte, ok |-> None, statement_id |-> id,
     num_params |-> num_params, num_columns |-> num_columns, sess |-> sess]

\* the head of a result set: the column count, which is followed by that
\* many column definitions and an EOF packet carrying the status `eof_flags`
ColumnsPkt(count, eof_flags) ==
    [b0 |-> count, ok |-> None, column_count |-> count,
     eof_flags |-> eof_flags]

\* a row of a result set
RowPkt == [b0 |-> 1, ok |-> None, len |-> 2]

\* a row of 254 bytes or more whose first value is announced by the length
\* prefix 0xfe
LongRowPkt == [b0 |-> EofByte, ok |-> None, len |-> 254]

\* no packet arrives before the read deadline
TimedOut == [b0 |-> TimedOutByte, ok |-> None]

\* a LOCAL INFILE request, with what follows it: the number of data frames
\* the handler writes into the LocalInfile sink before it returns, whether
\* it returns Ok, and what the server sends after the terminating packet
LocalInfilePkt(frames, handler_ok, final) ==
    [b0 |-> LocalInfileByte, ok |-> None, frames |-> frames,
     handler_ok |-> handler_ok, final |-> final]

\* AuthMoreData of caching_sha2_password: 0x01, then 0x03 (fast
\* authentication succeeded) or 0x04 (full authentication); also the
\* packet that carries the server's public key
AuthMoreDataPkt(b1) == [b0 |-> 1, b1 |-> b1, ok |-> None]

\* an auth-switch request naming `auth_plugin`
AuthSwitchPkt(auth_plugin) ==
    [b0 |-> EofByte, ok |-> None, auth_plugin |-> auth_plugin]

\* mysql_common::packets::parse_auth_switch_request: the plugin asked for,
\* or None for a parse error
parse_auth_switch_request(pkt) ==
    IF "auth_plugin" \in DOMAIN pkt THEN Some(pkt.auth_plugin) ELSE None

\* mysql_common::packets::parse_ok_packet: Some(ok) or None for a parse error
parse_ok_packet(pkt) == pkt.ok

(* -------------------------- connection set-up ------------------------- *)

\* a cache created one entry larger than the configured size
NewCacheCap_off(size) == size + 1

\* ConnInner::empty: the capacity the statement cache is created with
NewCacheCap(size) == size

\* the capabilities get_client_flags always asks for
ClientFlags ==
    { "CLIENT_PROTOCOL_41", "CLIENT_SECURE_CONNECTION", "CLIENT_LONG_PASSWORD",
      "CLIENT_TRANSACTIONS", "CLIENT_LOCAL_FILES", "CLIENT_MULTI_STATEMENTS",
      "CLIENT_MULTI_RESULTS", "CLIENT_PS_MULTI_RESULTS", "CLIENT_PLUGIN_AUTH",
      "CLIENT_CONNECT_ATTRS" }

\* Conn::connect_stream: a new transport with a new codec, or an I/O error
connect_stream(c, reachable) ==
    IF reachable
    THEN [c EXCEPT !.stream = IF c.opts.socket # None THEN Some("socket")
                                ELSE Some("tcp"),
                   !.link = "up", !.seq_id = 0,
                   !.max_allowed_packet = None,
                   !.wire = Append(@, Raw("connect"))]
    ELSE Fail(c, "IoError")

\* Stream::is_insecure: the transport has not been made secure
is_insecure(c) == Unwrap(c.stream) = "tcp"

\* Stream::is_socket: the transport is a Unix socket
is_socket(c) == Unwrap(c.stream) = "socket"

\* Conn::get_client_flags
get_client_flags(c) ==
    ClientFlags
        \cup (c.capability_flags \cap {"CLIENT_LONG_FLAG"})
        \cup (IF c.opts.compress THEN {"CLIENT_COMPRESS"} ELSE {})
        \cup (IF c.opts.db_name # None /\ Unwrap(c.opts.db_name) # ""
              THEN {"CLIENT_CONNECT_WITH_DB"} ELSE {})
        \cup (IF is_insecure(c) /\ c.opts.ssl_opts THEN {"CLIENT_SSL"} ELSE {})
        \cup c.opts.additional_capabilities

\* Conn::handle_handshake
handle_handshake(c, hp) ==
    [c EXCEPT !.capability_flags = hp.capabilities \cap get_client_flags(c),
              !.status_flags = hp.status_flags,
              !.seen_status = hp.status_flags,
              !.connection_id = hp.connection_id,
              !.character_set = hp.default_collation,
              !.server_version = hp.server_version,
              !.mariadb_server_version = hp.mariadb_server_version]

\* the server hangs up on a handshake that failed
Unusable(c) == IF Failed(c) THEN [c EXCEPT !.link = "down"] ELSE c

\* a packet of the handshake, with the capabilities it carries
RawWith(kind, flags) == [kind |-> kind, cmd |-> 0, arg |-> flags]

\* do_handshake that accepts any protocol version and capability word
check_handshake_accepts_all(c, hp) == c

\* Conn::do_handshake, the checks on the parsed handshake
check_handshake(c, hp) ==
    IF hp.protocol_version # 10 THEN Fail(c, "UnsupportedProtocol")
    ELSE IF "CLIENT_PROTOCOL_41" \notin hp.capabilities
    THEN Fail(c, "Protocol41NotSet")
    ELSE c

\* Conn::do_ssl_request
do_ssl_request(c) == write_packet(c, RawWith("ssl_request", get_client_flags(c)))

\* Conn::switch_to_ssl: the stream is taken out of the connection and put
\* back once make_secure has succeeded (`secured`)
switch_to_ssl(c, secured) ==
    IF c.stream = None THEN Panic(c)
    ELSE IF secured
    THEN [c EXCEPT !.stream = Some("tls"),
                   !.wire = Append(@, Raw("make_secure"))]
    ELSE Fail([c EXCEPT !.stream = None, !.link = "down"], "TlsError")

\* the TLS step without the check of the server's capabilities and without
\* the SSL request
start_tls_unchecked(c, hp, secured) ==
    IF is_insecure(c) /\ c.opts.ssl_opts
    THEN switch_to_ssl(c, secured)
    ELSE c

\* Conn::do_handshake, the TLS step
start_tls(c, hp, secured) ==
    IF is_insecure(c) /\ c.opts.ssl_opts
    THEN IF "CLIENT_SSL" \notin hp.capabilities
         THEN Fail(c, "TlsNotSupported")
         ELSE Try(do_ssl_request(c), LAMBDA c1 : switch_to_ssl(c1, secured))
    ELSE c

\* Conn::write_handshake_response
write_handshake_response(c, auth_plugin) ==
    write_packet(c, RawWith("handshake_response",
                            [capabilities |-> c.capability_flags,
                             auth_plugin |-> auth_plugin]))

\* the packets the server still sends: the next one (None: the stream
\* yields nothing more) and those after it
Reply(replies) == IF replies = <<>> THEN None ELSE Head(replies)

Rest(replies) == IF replies = <<>> THEN <<>> ELSE Tail(replies)

\* the OK packet that ends an authentication: parse_ok_packet, handle_ok
AuthOk(c, pkt) ==
    IF parse_ok_packet(Unwrap(pkt)) = None THEN Fail(c, "IoError")
    ELSE handle_ok(c, Unwrap(parse_ok_packet(Unwrap(pkt))))

RECURSIVE continue_auth(_, _, _, _)

\* perform_auth_switch that does not note that a switch has been made
perform_auth_switch_again(c, auth_plugin, replies) ==
    Try(write_packet(c, Raw("auth_switch_response")), LAMBDA c1 :
        continue_auth(c1, auth_plugin, FALSE, replies))

\* Conn::perform_auth_switch: the data of the plugin asked for (nothing for
\* a plugin the client does not know) is written, then that plugin goes on
perform_auth_switch(c, auth_plugin, replies) ==
    Try(write_packet(c, Raw("auth_switch_response")), LAMBDA c1 :
        continue_auth(c1, auth_plugin, TRUE, replies))

\* Conn::continue_mysql_native_password_auth
continue_mysql_native_password_auth(c, auth_switched, replies) ==
    Try(read_packet(c, Reply(replies)), LAMBDA c1 :
        IF Unwrap(Reply(replies)).b0 = OkByte
        THEN AuthOk(c1, Reply(replies))
        ELSE IF Unwrap(Reply(replies)).b0 = EofByte /\ ~auth_switched
        THEN IF parse_auth_switch_request(Unwrap(Reply(replies))) = None
             THEN Fail(c1, "IoError")
             ELSE perform_auth_switch(
                      c1, Unwrap(parse_auth_switch_request(Unwrap(Reply(replies)))),
                      Rest(replies))
        ELSE Fail(c1, "UnexpectedPacket"))

\* caching_sha2 full authentication that sends the password in the clear
\* whatever the transport is
send_password_always_clear(c, replies) ==
    Try(write_packet(c, Raw("cleartext_password")), LAMBDA c1 :
    Try(read_packet(c1, Reply(replies)), LAMBDA c2 :
        AuthOk(c2, Reply(replies))))

\* Conn::continue_caching_sha2_password_auth, the 0x01 0x04 arm: the
\* password in the clear on a secure transport or a socket, else a request
\* for the server's public key and the password encrypted with it; then
\* the server's OK
send_password(c, replies) ==
    IF ~is_insecure(c) \/ is_socket(c)
    THEN Try(write_packet(c, Raw("cleartext_password")), LAMBDA c1 :
         Try(read_packet(c1, Reply(replies)), LAMBDA c2 :
             AuthOk(c2, Reply(replies))))
    ELSE Try(write_packet(c, Raw("public_key_request")), LAMBDA c1 :
         Try(read_packet(c1, Reply(replies)), LAMBDA c2 :
         Try(write_packet(c2, Raw("encrypted_password")), LAMBDA c3 :
         Try(read_packet(c3, Reply(Rest(replies))), LAMBDA c4 :
             AuthOk(c4, Reply(Rest(replies)))))))

\* Conn::continue_caching_sha2_password_auth
continue_caching_sha2_password_auth(c, auth_switched, replies) ==
    Try(read_packet(c, Reply(replies)), LAMBDA c1 :
        IF Unwrap(Reply(replies)).b0 = OkByte THEN c1
        ELSE IF Unwrap(Reply(replies)).b0 = 1
        THEN IF Unwrap(Reply(replies)).b1 = 3
             THEN Try(read_packet(c1, Reply(Rest(replies))), LAMBDA c2 :
                      AuthOk(c2, Reply(Rest(replies))))
             ELSE IF Unwrap(Reply(replies)).b1 = 4
             THEN send_password(c1, Rest(replies))
             ELSE Fail(c1, "UnexpectedPacket")
        ELSE IF Unwrap(Reply(replies)).b0 = EofByte /\ ~auth_switched
        THEN IF parse_auth_switch_request(Unwrap(Reply(replies))) = None
             THEN Fail(c1, "IoError")
             ELSE perform_auth_switch(
                      c1, Unwrap(parse_auth_switch_request(Unwrap(Reply(replies)))),
                      Rest(replies))
        ELSE Fail(c1, "UnexpectedPacket"))

\* Conn::continue_auth
continue_auth(c, auth_plugin, auth_switched, replies) ==
    IF auth_plugin = "mysql_native_password"
    THEN continue_mysql_native_password_auth(c, auth_switched, replies)
    ELSE IF auth_plugin = "caching_sha2_password"
    THEN continue_caching_sha2_password_auth(c, auth_switched, replies)
    ELSE Fail(c, "UnknownAuthPlugin")

\* handshake.auth_plugin().unwrap_or(&AuthPlugin::MysqlNativePassword)
PluginOf(hp) ==
    IF hp.auth_plugin = None THEN "mysql_native_password"
    ELSE Unwrap(hp.auth_plugin)

\* do_handshake that goes on with a plugin the client does not know
reject_unknown_plugin_never(c, hp) == c

\* Conn::do_handshake, the check of the plugin the server names
reject_unknown_plugin(c, hp) ==
    IF PluginOf(hp) \notin {"mysql_native_password", "caching_sha2_password"}
    THEN Fail(c, "UnknownAuthPlugin")
    ELSE c

\* a codec that is never switched to the compressed envelope
switch_to_compressed_never(c) == c

\* Conn::switch_to_compressed: the codec wraps its frames from now on
switch_to_compressed(c) ==
    Try(stream_mut(c), LAMBDA c1 :
        [c1 EXCEPT !.wire = Append(@, Raw("compress"))])

\* Conn::do_handshake.  hs.greeting is the server's first packet, hs.hp the
\* handshake it parses to (None: parse_handshake_packet fails), hs.secured
\* whether make_secure succeeds, hs.auth the reply to the HandshakeResponse
\* (None: I/O error) and hs.more the packets the server sends after it
\* while the authentication goes on.
do_handshake(c, hs) ==
    Unusable(
    Try(read_packet(c, hs.greeting), LAMBDA c1 :
        IF hs.hp = None THEN Fail(c1, "IoError")
        ELSE
    Try(check_handshake(c1, Unwrap(hs.hp)), LAMBDA c2 :
    Try(start_tls(handle_handshake(c2, Unwrap(hs.hp)), Unwrap(hs.hp),
                  hs.secured), LAMBDA c3 :
    Try(reject_unknown_plugin(c3, Unwrap(hs.hp)), LAMBDA c3a :
    Try(write_handshake_response(c3a, PluginOf(Unwrap(hs.hp))), LAMBDA c4 :
    Try(continue_auth(c4, PluginOf(Unwrap(hs.hp)), FALSE,
                      <<hs.auth>> \o hs.more), LAMBDA c6 :
        IF "CLIENT_COMPRESS" \in c6.capability_flags
        THEN switch_to_compressed(c6)
        ELSE c6)))))))

\* Conn::sync_seq_id: aligns the plain sequence id with the compressed one;
\* without compression the codec keeps its sequence id.  The call is noted
\* in the log of the operation.
sync_seq_id(c) ==
    Try(stream_mut(c), LAMBDA c1 :
        [c1 EXCEPT !.wire = Append(@, Raw("sync_seq_id"))])

\* Conn::affected_rows
affected_rows(c) ==
    IF c.ok_packet = None THEN 0 ELSE Unwrap(c.ok_packet).affected_rows

\* Conn::more_results_exists
more_results_exists(c) == "SERVER_MORE_RESULTS_EXISTS" \in c.status_flags

\* Conn::get_system_var: query_first("SELECT @@name").  _query writes the
\* command, handle_result_set reads the one-column header (column count,
\* column definition, EOF) and sets has_results, next_text reads the row and
\* then the terminator, which clears has_results and goes to handle_ok.
\* resp.first is the first reply (None: I/O error), resp.value the value read.
get_system_var(c, resp) ==
    Try(write_command(c, Command.COM_QUERY, 0), LAMBDA c1 :
    Try(IF more_results_exists(c1) THEN sync_seq_id(c1) ELSE c1, LAMBDA c2 :
    Try(read_packet(c2, resp.first), LAMBDA c3 :
        [handle_ok(c3, Unwrap(parse_ok_packet(TerminatorPkt({}))))
            EXCEPT !.seq_id = (@ + 4) % 256, !.reads = @ + 4,
                   !.has_results = FALSE,
                   !.ret = Some(resp.value)])))

\* connect that stores whatever value it fetched
connect_unchecked(c, hs, resp) ==
    IF c.connected THEN c
    ELSE
    Try(do_handshake(c, hs), LAMBDA c1 :
    Try(get_system_var(c1, resp), LAMBDA c2 :
        [c2 EXCEPT !.max_allowed_packet = c2.ret, !.connected = TRUE,
                   !.ret = None]))

\* Conn::connect
connect(c, hs, resp) ==
    IF c.connected THEN c
    ELSE
    Try(do_handshake(c, hs), LAMBDA c1 :
    Try(get_system_var(c1, resp), LAMBDA c2 :
        IF Unwrap(c2.ret) = 0 THEN Fail(c2, "SetupError")
        ELSE [c2 EXCEPT !.max_allowed_packet = c2.ret, !.connected = TRUE,
                        !.ret = None]))

(* ------------------------------ reset --------------------------------- *)

\* soft_reset that does not pass the server's OK packet to handle_ok
soft_reset_keeps_ok(c, pkt) ==
    Try(write_command(c, Command.COM_RESET_CONNECTION, 0), LAMBDA c1 :
    Try(read_packet(c1, pkt), LAMBDA c2 :
        IF Unwrap(pkt).b0 = OkByte
        THEN IF parse_ok_packet(Unwrap(pkt)) = None
             THEN Fail(c2, "IoError")
             ELSE [c2 EXCEPT !.last_command = 0, !.stmt_cache = clear(@)]
        ELSE Fail(c2, "MySqlError")))

\* Conn::soft_reset: COM_RESET_CONNECTION and its reply `pkt`
soft_reset(c, pkt) ==
    Try(write_command(c, Command.COM_RESET_CONNECTION, 0), LAMBDA c1 :
    Try(read_packet(c1, pkt), LAMBDA c2 :
        IF Unwrap(pkt).b0 = OkByte
        THEN IF parse_ok_packet(Unwrap(pkt)) = None
             THEN Fail(c2, "IoError")
             ELSE [handle_ok(c2, Unwrap(parse_ok_packet(Unwrap(pkt))))
                      EXCEPT !.last_command = 0, !.stmt_cache = clear(@)]
        ELSE Fail(c2, "MySqlError")))

\* hard_reset that keeps the statement cache
hard_reset_keeps_cache(c, env) ==
    Try(connect_stream([c EXCEPT !.stream = None, !.link = "down",
                                 !.capability_flags = {}, !.status_flags = {},
                                 !.connection_id = 0, !.character_set = 0,
                                 !.ok_packet = None, !.last_command = 0,
                                 !.connected = FALSE, !.has_results = FALSE],
                       env.reachable),
        LAMBDA c2 : connect(c2, env.hs, env.sysvar))

\* Conn::hard_reset: drop the transport and the session state, reconnect.
\* env.reachable: connect_stream succeeds; env.hs, env.sysvar: the server's
\* part of the handshake and of SELECT @@max_allowed_packet
hard_reset(c, env) ==
    Try(connect_stream([c EXCEPT !.stream = None, !.link = "down",
                                 !.stmt_cache = clear(@),
                                 !.capability_flags = {}, !.status_flags = {},
                                 !.connection_id = 0, !.character_set = 0,
                                 !.ok_packet = None, !.last_command = 0,
                                 !.connected = FALSE, !.has_results = FALSE],
                       env.reachable),
        LAMBDA c2 : connect(c2, env.hs, env.sysvar))

\* Result::or_else(|_| hard_reset()): a panic is not an Err
OrElseHardReset(s, env) ==
    IF s.panicked \/ s.err = "" THEN s ELSE hard_reset(Recover(s), env)

\* the match guards of Conn::reset: COM_RESET_CONNECTION is tried first
supports_soft_reset(c) ==
    \/ IsSome(c.server_version)
         /\ TupleGt(Unwrap(c.server_version), <<5, 7, 3>>)
    \/ IsSome(c.mariadb_server_version)
         /\ TupleGe(Unwrap(c.mariadb_server_version), <<10, 2, 7>>)

\* reset whose MySQL guard is >= (5, 7, 3)
reset_from_5_7_3(c, pkt, env) ==
    IF \/ IsSome(c.server_version)
            /\ TupleGe(Unwrap(c.server_version), <<5, 7, 3>>)
       \/ IsSome(c.mariadb_server_version)
            /\ TupleGe(Unwrap(c.mariadb_server_version), <<10, 2, 7>>)
    THEN OrElseHardReset(soft_reset(c, pkt), env)
    ELSE hard_reset(c, env)

\* reset that returns the error of a failed soft_reset
reset_no_fallback(c, pkt, env) ==
    IF supports_soft_reset(c) THEN soft_reset(c, pkt) ELSE hard_reset(c, env)

\* Conn::reset: soft_reset().or_else(|_| hard_reset()) or hard_reset()
reset(c, pkt, env) ==
    IF supports_soft_reset(c)
    THEN OrElseHardReset(soft_reset(c, pkt), env)
    ELSE hard_reset(c, env)

(* ------------------------ prepared statements ------------------------- *)

\* close that forgets the statement without telling the server
close_silent(c, stmt) == [c EXCEPT !.stmt_cache = remove(@, stmt.id)]

\* close that writes the command and leaves the cache as it is
close_keeps_entry(c, stmt) ==
    write_command_raw(c, Body(Command.COM_STMT_CLOSE, stmt.id))

\* Queryable::close for Conn
close(c, stmt) ==
    write_command_raw([c EXCEPT !.stmt_cache = remove(@, stmt.id)],
                      Body(Command.COM_STMT_CLOSE, stmt.id))

\* InnerStmt::from_payload(pld, connection_id)
InnerStmt(p, id) ==
    [id |-> p.statement_id, connection_id |-> id, num_params |-> p.num_params,
     num_columns |-> p.num_columns, sess |-> p.sess]

\* packets that follow the prepare-ok: n definitions and one EOF, if n > 0
Definitions(n) == IF n > 0 THEN n + 1 ELSE 0

\* Conn::_true_prepare: COM_STMT_PREPARE and its reply `pkt`; the statement
\* is tagged with this connection's id.  The reply announces num_params
\* parameter and num_columns column definitions, each list followed by an
\* EOF packet.
_true_prepare(c, query, pkt) ==
    Try(write_command(c, Command.COM_STMT_PREPARE, query), LAMBDA c1 :
    Try(read_packet(c1, pkt), LAMBDA c2 :
        [c2 EXCEPT !.seq_id = (@ + Definitions(Unwrap(pkt).num_params)
                                  + Definitions(Unwrap(pkt).num_columns)) % 256,
                   !.reads = @ + Definitions(Unwrap(pkt).num_params)
                               + Definitions(Unwrap(pkt).num_columns),
                   !.ret = Some(InnerStmt(Unwrap(pkt), c2.connection_id))]))

\* the link breaks (`cut`) between two packets
Cut(c, cut) == IF cut THEN [c EXCEPT !.link = "down"] ELSE c

\* the result of a call that failed carries no value
NoValueOnErr(c) == IF Failed(c) THEN [c EXCEPT !.ret = None] ELSE c

\* the miss path of _prepare after _true_prepare: cache the statement `st`
\* and close the statement the insert evicted, if any
CacheAndClose(c, query, st, p) ==
    IF p.evicted # None
    THEN NoValueOnErr(close([c EXCEPT !.stmt_cache = p.cache], Unwrap(p.evicted)))
    ELSE [c EXCEPT !.stmt_cache = p.cache]

\* _prepare whose lookup does not count as a use of the entry
_prepare_no_touch(c, query, pkt, cut) ==
    IF by_query(c.stmt_cache, query) # None
    THEN [c EXCEPT !.ret = Some(Unwrap(by_query(c.stmt_cache, query)).stmt)]
    ELSE Try(_true_prepare(c, query, pkt), LAMBDA c1 :
             CacheAndClose(Cut(c1, cut), query, Unwrap(c1.ret),
                           put(c1.stmt_cache, c1.cache_cap, query, Unwrap(c1.ret))))

\* _prepare that drops the evicted statement without closing it
_prepare_no_close(c, query, pkt, cut) ==
    IF by_query(c.stmt_cache, query) # None
    THEN [c EXCEPT !.stmt_cache = by_query_touch(@, query),
                   !.ret = Some(Unwrap(by_query(c.stmt_cache, query)).stmt)]
    ELSE Try(_true_prepare(c, query, pkt), LAMBDA c1 :
             [Cut(c1, cut) EXCEPT !.stmt_cache =
                 put(c1.stmt_cache, c1.cache_cap, query, Unwrap(c1.ret)).cache])

\* _prepare that asks the server before it looks at the cache
_prepare_always(c, query, pkt, cut) ==
    Try(_true_prepare(c, query, pkt), LAMBDA c1 :
        IF by_query(c1.stmt_cache, query) # None
        THEN [c1 EXCEPT !.stmt_cache = by_query_touch(@, query),
                        !.ret = Some(Unwrap(by_query(c.stmt_cache, query)).stmt)]
        ELSE CacheAndClose(Cut(c1, cut), query, Unwrap(c1.ret),
                           put(c1.stmt_cache, c1.cache_cap, query, Unwrap(c1.ret))))

\* Conn::_prepare.  `pkt` is the server's reply to COM_STMT_PREPARE, read
\* only on a miss; `cut`: the link breaks after that reply, before the
\* evicted statement is closed
_prepare(c, query, pkt, cut) ==
    IF by_query(c.stmt_cache, query) # None
    THEN [c EXCEPT !.stmt_cache = by_query_touch(@, query),
                   !.ret = Some(Unwrap(by_query(c.stmt_cache, query)).stmt)]
    ELSE Try(_true_prepare(c, query, pkt), LAMBDA c1 :
             CacheAndClose(Cut(c1, cut), query, Unwrap(c1.ret),
                           put(c1.stmt_cache, c1.cache_cap, query, Unwrap(c1.ret))))

(* ------------------------------- prep --------------------------------- *)
(* The text of a query is a sequence of tokens: pieces of SQL, `?` marks   *)
(* and `:name` parameters.                                                 *)

Sql(v) == [kind |-> "sql", v |-> v]

Mark == [kind |-> "mark", v |-> "?"]

Named(v) == [kind |-> "name", v |-> v]

\* the names of the `:name` parameters of a query, in the order they occur
NamesOf(query) ==
    LET named == SelectSeq(query, LAMBDA t : t.kind = "name")
    IN  [i \in DOMAIN named |-> named[i].v]

\* parse_named_params: the names (None if the query has none) and the
\* query with a `?` in the place of every `:name`
parse_named_params(query) ==
    [named_params |-> IF NamesOf(query) = <<>> THEN None
                      ELSE Some(NamesOf(query)),
     real_query |-> [i \in DOMAIN query |->
                        IF query[i].kind = "name" THEN Mark ELSE query[i]]]

\* Statement::new(inner, named_params)
Statement(inner, named_params) ==
    [id |-> inner.id, connection_id |-> inner.connection_id,
     num_params |-> inner.num_params, num_columns |-> inner.num_columns,
     sess |-> inner.sess, named_params |-> named_params]

\* prep that looks the query up as the caller wrote it
prep_by_text(c, query, pkt) ==
    LET made == _prepare(c, query, pkt, FALSE)
    IN  IF Failed(made) THEN made
        ELSE [made EXCEPT !.ret = Some(Statement(Unwrap(made.ret),
                              parse_named_params(query).named_params))]

\* Queryable::prep for Conn
prep(c, query, pkt) ==
    LET made == _prepare(c, parse_named_params(query).real_query, pkt, FALSE)
    IN  IF Failed(made) THEN made
        ELSE [made EXCEPT !.ret = Some(Statement(Unwrap(made.ret),
                              parse_named_params(query).named_params))]

(* ------------------------- queries and execute ------------------------ *)

\* LocalInfile, the sink the handler writes to: each frame is a packet
RECURSIVE write_frames(_, _)
write_frames(c, n) ==
    IF n = 0 THEN c
    ELSE Try(write_packet(c, Raw("infile_data")),
             LAMBDA c1 : write_frames(c1, n - 1))

\* Conn::send_local_infile, the block that holds the LocalInfile: the
\* handler of the Opts, if there is one, is called with the sink (the
\* connection of the model has no handler of its own), and then the sink
\* is flushed; the handler's Err is returned with `?`
feed_local_infile(c, req) ==
    IF c.opts.local_infile_handler
    THEN Try(write_frames([c EXCEPT !.wire = Append(@, Raw("handler"))],
                          req.frames),
             LAMBDA c1 : IF req.handler_ok THEN c1 ELSE Fail(c1, "IoError"))
    ELSE c

\* Conn::send_local_infile: the data, the empty packet that ends it, the
\* server's final packet
send_local_infile(c, req) ==
    Try(feed_local_infile(c, req), LAMBDA c1 :
    Try(write_packet(c1, Raw("infile_end")), LAMBDA c2 :
    Try(read_packet(c2, req.final), LAMBDA c3 :
        IF parse_ok_packet(Unwrap(req.final)) = None THEN Fail(c3, "IoError")
        ELSE handle_ok(c3, Unwrap(parse_ok_packet(Unwrap(req.final)))))))

\* Conn::handle_result_set.  `pkt` is the first packet of the reply: an OK
\* packet, a LOCAL INFILE request, or the column count of a result set,
\* whose column definitions and EOF packet are then read (the EOF is
\* skipped).
handle_result_set(c, pkt) ==
    Try(IF more_results_exists(c) THEN sync_seq_id(c) ELSE c, LAMBDA c1 :
    Try(read_packet(c1, pkt), LAMBDA c2 :
        IF Unwrap(pkt).b0 = OkByte
        THEN IF parse_ok_packet(Unwrap(pkt)) = None THEN Fail(c2, "IoError")
             ELSE handle_ok(c2, Unwrap(parse_ok_packet(Unwrap(pkt))))
        ELSE IF Unwrap(pkt).b0 = LocalInfileByte
        THEN send_local_infile(c2, Unwrap(pkt))
        ELSE [c2 EXCEPT
                !.seq_id = (@ + Unwrap(pkt).column_count + 1) % 256,
                !.reads = @ + Unwrap(pkt).column_count + 1,
                !.seen_status = Unwrap(pkt).eof_flags,
                !.has_results = Unwrap(pkt).column_count > 0]))

\* next_text that takes every packet beginning with 0xfe for the terminator
next_text_by_first_byte(c, pkt) ==
    IF ~c.has_results THEN c
    ELSE
    Try(read_packet(c, pkt), LAMBDA c1 :
        IF Unwrap(pkt).b0 = EofByte
        THEN IF parse_ok_packet(Unwrap(pkt)) = None
             THEN Fail([c1 EXCEPT !.has_results = FALSE], "IoError")
             ELSE handle_ok([c1 EXCEPT !.has_results = FALSE],
                            Unwrap(parse_ok_packet(Unwrap(pkt))))
        ELSE [c1 EXCEPT !.ret = Some(Unwrap(pkt))])

\* Conn::next_text: the next row of a text result set; a packet shorter
\* than 0xfe bytes that begins with 0xfe is the terminator, which clears
\* has_results and goes to handle_ok
next_text(c, pkt) ==
    IF ~c.has_results THEN c
    ELSE
    Try(read_packet(c, pkt), LAMBDA c1 :
        IF Unwrap(pkt).b0 = EofByte /\ Unwrap(pkt).len < 254
        THEN IF parse_ok_packet(Unwrap(pkt)) = None
             THEN Fail([c1 EXCEPT !.has_results = FALSE], "IoError")
             ELSE handle_ok([c1 EXCEPT !.has_results = FALSE],
                            Unwrap(parse_ok_packet(Unwrap(pkt))))
        ELSE [c1 EXCEPT !.ret = Some(Unwrap(pkt))])

\* Conn::next_bin: the next row of a binary result set
next_bin(c, pkt) ==
    IF ~c.has_results THEN c
    ELSE
    Try(read_packet(c, pkt), LAMBDA c1 :
        IF Unwrap(pkt).b0 = EofByte /\ Unwrap(pkt).len < 254
        THEN IF parse_ok_packet(Unwrap(pkt)) = None
             THEN Fail([c1 EXCEPT !.has_results = FALSE], "IoError")
             ELSE handle_ok([c1 EXCEPT !.has_results = FALSE],
                            Unwrap(parse_ok_packet(Unwrap(pkt))))
        ELSE [c1 EXCEPT !.ret = Some(Unwrap(pkt))])

\* Params as _execute matches on them
\* Params as _execute matches on them: the number of values, the names of
\* a map, and `bytes`, the length of every value that is Value::Bytes by
\* its index, from 0, in the positional list (for a map: the index
\* into_positional gives it); the values `bytes` does not name are of
\* another variant
ParamsEmpty == [kind |-> "Empty", n |-> 0, names |-> {}, bytes |-> <<>>]

ParamsPositional(n) ==
    [kind |-> "Positional", n |-> n, names |-> {}, bytes |-> <<>>]

ParamsNamed(names) ==
    [kind |-> "Named", n |-> 0, names |-> names, bytes |-> <<>>]

\* a positional list of n values of which `bytes` are Value::Bytes
ParamsBytes(n, bytes) == [ParamsPositional(n) EXCEPT !.bytes = bytes]

\* mysql_common::constants::MAX_PAYLOAD_LEN
MAX_PAYLOAD_LEN == 16777215

RECURSIVE chunks(_, _, _)
\* slice::chunks(size) of `len` bytes that begin at offset `from`: each chunk
\* as its offset and its length; no chunk for an empty slice
chunks(from, len, size) ==
    IF len = 0 THEN <<>>
    ELSE LET l == IF len < size THEN len ELSE size IN
         << [from |-> from, len |-> l] >> \o chunks(from + l, len - l, size)

\* the chunks of a Value::Bytes of `len` bytes: an empty value is one empty
\* chunk
long_data_chunks(len) ==
    chunks(0, len, MAX_PAYLOAD_LEN - 6)
       \o (IF len = 0 THEN << [from |-> 0, len |-> 0] >> ELSE <<>>)

\* ComStmtSendLongData::new(stmt_id, i, chunk)
ComStmtSendLongData(stmt_id, i, chunk) ==
    Body(Command.COM_STMT_SEND_LONG_DATA, << stmt_id, i, chunk.from, chunk.len >>)

RECURSIVE send_chunks(_, _, _, _)
\* the inner loop of send_long_data: the chunks of parameter i
send_chunks(c, stmt_id, i, cs) ==
    IF cs = <<>> THEN c
    ELSE Try(write_command_raw(c, ComStmtSendLongData(stmt_id, i, Head(cs))),
             LAMBDA c1 : send_chunks(c1, stmt_id, i, Tail(cs)))

RECURSIVE send_values(_, _, _, _)
\* the outer loop of send_long_data over the Value::Bytes at the indexes
\* `rest`, in the order of the list, each with its chunks `cs[i]`; a value
\* of another variant writes nothing
send_values(c, stmt_id, cs, rest) ==
    IF rest = {} THEN c
    ELSE LET i == CHOOSE x \in rest : \A y \in rest : x <= y IN
         Try(send_chunks(c, stmt_id, i, cs[i]),
             LAMBDA c1 : send_values(c1, stmt_id, cs, rest \ {i}))

\* send_long_data that sends what slice::chunks yields and no more
send_long_data_unchained(c, stmt_id, params) ==
    send_values(c, stmt_id,
                [i \in DOMAIN params.bytes |->
                    chunks(0, params.bytes[i], MAX_PAYLOAD_LEN - 6)],
                DOMAIN params.bytes)

\* Conn::send_long_data: one COM_STMT_SEND_LONG_DATA for each chunk of each
\* Value::Bytes of the list
send_long_data(c, stmt_id, params) ==
    send_values(c, stmt_id,
                [i \in DOMAIN params.bytes |->
                    long_data_chunks(params.bytes[i])],
                DOMAIN params.bytes)

\* Params::into_positional: the names of the statement that the caller's
\* map lacks
MissingNames(named_params, params) ==
    { i \in DOMAIN named_params : named_params[i] \notin params.names }

\* the checks _execute makes on the parameters before it builds the request:
\* the error it returns, "" if it goes on; num_params is a u16 and is
\* compared with `params.len() as u16`
check_params(stmt, named_params, params) ==
    IF params.kind = "Named" /\ named_params = None
    THEN "NamedParamsForPositionalQuery"
    ELSE IF params.kind = "Named"
            /\ MissingNames(Unwrap(named_params), params) # {}
    THEN "MissingNamedParameter"
    ELSE IF stmt.num_params #
               (IF params.kind = "Named" THEN Len(Unwrap(named_params))
                ELSE params.n) % 65536
    THEN "MismatchedStmtParams"
    ELSE ""

\* _execute that checks the parameters after it has written the command
_execute_checks_late(c, stmt, named_params, params, as_long_data, pkt) ==
    Try(IF as_long_data THEN send_long_data(c, stmt.id, params) ELSE c,
        LAMBDA c1 :
    Try(write_command_raw(c1, Body(Command.COM_STMT_EXECUTE, stmt.id)),
        LAMBDA c2 :
            IF check_params(stmt, named_params, params) # ""
            THEN Fail(c2, check_params(stmt, named_params, params))
            ELSE handle_result_set(c2, pkt)))

\* Conn::_execute.  `named_params` are the names of the Statement (None for
\* a positional query), `as_long_data` what ComStmtExecuteRequestBuilder
\* ::build returns with the request (false: the parameters fit into the
\* request), `pkt` the first packet of the reply.  Named parameters are made
\* positional and go through the positional arm; the arm of Params::Empty
\* builds the request of no values and sends no long data.
_execute(c, stmt, named_params, params, as_long_data, pkt) ==
    IF check_params(stmt, named_params, params) # ""
    THEN Fail(c, check_params(stmt, named_params, params))
    ELSE
    Try(IF as_long_data /\ params.kind # "Empty"
        THEN send_long_data(c, stmt.id, params) ELSE c,
        LAMBDA c1 :
    Try(write_command_raw(c1, Body(Command.COM_STMT_EXECUTE, stmt.id)),
        LAMBDA c2 : handle_result_set(c2, pkt)))

\* AsStatement::as_statement for a Statement: the id of the connection that
\* owns the statement is paired with the id of this connection, and the
\* statement of another connection is rejected
as_statement(c, stmt) ==
    IF stmt.connection_id # c.connection_id THEN Fail(c, "DriverError")
    ELSE c

\* exec_iter that goes to _execute with any Statement
exec_iter_unchecked(c, stmt, named_params, params, as_long_data, pkt) ==
    _execute(c, stmt, named_params, params, as_long_data, pkt)

\* Queryable::exec_iter for Conn
exec_iter(c, stmt, named_params, params, as_long_data, pkt) ==
    Try(as_statement(c, stmt), LAMBDA c1 :
        _execute(c1, stmt, named_params, params, as_long_data, pkt))

\* Conn::_query
_query(c, query, pkt) ==
    Try(write_command(c, Command.COM_QUERY, query),
        LAMBDA c1 : handle_result_set(c1, pkt))

\* Conn::drop_packet
drop_packet(c, pkt) == read_packet(c, pkt)

\* the bool ping and select_db return: whether the exchange went through
Went(c) == IF c.panicked THEN c ELSE [Recover(c) EXCEPT !.ret = Some(~Failed(c))]

\* Conn::ping
ping(c, pkt) ==
    Went(Try(write_command(c, Command.COM_PING, 0),
             LAMBDA c1 : drop_packet(c1, pkt)))

\* Conn::select_db
select_db(c, schema, pkt) ==
    Went(Try(write_command(c, Command.COM_INIT_DB, schema),
             LAMBDA c1 : drop_packet(c1, pkt)))

(* -------------------------------- drop -------------------------------- *)

RECURSIVE close_all(_, _)
\* the loop of Drop: close every statement, `let _ =` ignoring the errors
close_all(c, stmts) ==
    IF stmts = <<>> \/ c.panicked THEN c
    ELSE close_all(Recover(close(c, Head(stmts))), Tail(stmts))

\* the end of Drop: COM_QUIT if there is a transport, which then goes with
\* the ConnInner
QuitAndFree(c) ==
    IF c.panicked THEN c
    ELSE IF c.stream = None THEN c
    ELSE [Recover(write_command(c, Command.COM_QUIT, 0))
             EXCEPT !.stream = None, !.link = "down"]

\* the loop of Drop with `?` in the place of `let _ =`
RECURSIVE close_until_error(_, _)
close_until_error(c, stmts) ==
    IF stmts = <<>> THEN c
    ELSE Try(close(c, Head(stmts)),
             LAMBDA c1 : close_until_error(c1, Tail(stmts)))

\* a Drop that gives up at the first write that fails
drop_until_error(c) ==
    LET closed == close_until_error([c EXCEPT !.stmt_cache = StmtCacheNew,
                                              !.cache_cap = 0],
                                    into_iter(c.stmt_cache))
    IN  IF closed.err # "" THEN Recover(closed) ELSE QuitAndFree(closed)

\* Drop for Conn
drop(c) ==
    QuitAndFree(close_all([c EXCEPT !.stmt_cache = StmtCacheNew, !.cache_cap = 0],
                          into_iter(c.stmt_cache)))

(* ---------------------- what the environment offers ------------------- *)

\* a handshake packet as parse_handshake_packet returns it
HandshakePacketOf(versions, id, protocol_version, capabilities, auth_plugin) ==
    [ protocol_version |-> protocol_version, capabilities |-> capabilities,
      auth_plugin |-> auth_plugin,    \* Option: the server may name none
      status_flags |-> {}, connection_id |-> id,
      default_collation |-> 45,
      server_version |-> versions[1], mariadb_server_version |-> versions[2] ]

\* the handshake the server sends: a new connection id, its version pair,
\* every capability the client asks for
HandshakePacket(versions, id) ==
    HandshakePacketOf(versions, id, 10, ClientFlags \cup {"CLIENT_LONG_FLAG"},
                      Some("mysql_native_password"))

\* how a handshake can go (the inputs of do_handshake)
Handshakes(id) ==
    { [greeting |-> None, hp |-> None, secured |-> FALSE, auth |-> None,
       more |-> <<>>],
      [greeting |-> Some(OtherPkt), hp |-> None, secured |-> FALSE,
       auth |-> None, more |-> <<>>] }
    \cup
    { [greeting |-> Some(OtherPkt), hp |-> Some(HandshakePacket(v, id)),
       secured |-> FALSE, auth |-> a, more |-> <<>>] :
         v \in {srv_version}, a \in {None, Some(ErrPkt), Some(OtherPkt)} }
    \cup
    { [greeting |-> Some(OtherPkt),
       hp |-> Some(HandshakePacketOf(v, id, 10,
                                     ClientFlags \cup {"CLIENT_LONG_FLAG"},
                                     Some(plugin))),
       secured |-> FALSE, auth |-> Some(OkPkt(0, {})), more |-> <<>>] :
         v \in {srv_version},
         plugin \in {"mysql_native_password", "caching_sha2_password"} }

\* the handshake reaches handle_handshake and authentication succeeds
HandshakeOk(hs) ==
    hs.hp # None /\ hs.auth # None /\ Unwrap(hs.auth).b0 = OkByte

\* replies to SELECT @@max_allowed_packet: an I/O error, an ERR packet, or a
\* row whose value converts to 0 (NULL, unparsable, zero) or to a size
SysVarReplies ==
    { [first |-> None, value |-> 0], [first |-> Some(ErrPkt), value |-> 0],
      [first |-> Some(OtherPkt), value |-> 0],
      [first |-> Some(OtherPkt), value |-> 4194304] }

SysVarOk(resp) == resp.first = Some(OtherPkt) /\ resp.value > 0

\* the server cannot be reached
Unreachable(id) ==
    [reachable |-> FALSE,
     hs |-> [greeting |-> None, hp |-> None, secured |-> FALSE, auth |-> None,
             more |-> <<>>],
     sysvar |-> [first |-> None, value |-> 0]]

\* the server is there and the reconnect goes through
Reconnect(id) ==
    [reachable |-> TRUE,
     hs |-> [greeting |-> Some(OtherPkt),
             hp |-> Some(HandshakePacket(srv_version, id)),
             secured |-> FALSE, auth |-> Some(OkPkt(0, {})), more |-> <<>>],
     sysvar |-> [first |-> Some(OtherPkt), value |-> 4194304]]

\* what a reconnect meets
HardEnvs(id) ==
    { Unreachable(id) }
    \cup
    { [reachable |-> TRUE, hs |-> h,
       sysvar |-> CHOOSE r \in SysVarReplies : r.first = None] :
         h \in {x \in Handshakes(id) : ~HandshakeOk(x)} }
    \cup
    { [reachable |-> TRUE, hs |-> h, sysvar |-> r] :
         h \in {x \in Handshakes(id) : HandshakeOk(x)}, r \in SysVarReplies }

\* the reconnect succeeds
HardEnvOk(env) == env.reachable /\ HandshakeOk(env.hs) /\ SysVarOk(env.sysvar)

\* replies to COM_RESET_CONNECTION; the server's OK reports no affected rows
SoftReplies ==
    { None, Some(ErrPkt), Some(OtherPkt), Some(MalformedOkPkt),
      Some(OkPkt(0, {})) }

\* why the COM_RESET_CONNECTION exchange fails, "" when it succeeds
SoftFailure(pkt) ==
    IF stream = None THEN "panic"
    ELSE IF link = "down" THEN "write"
    ELSE IF pkt = None THEN "read"
    ELSE IF Unwrap(pkt).b0 = ErrByte THEN "err"
    ELSE IF Unwrap(pkt).b0 # OkByte THEN "not_ok"
    ELSE IF Unwrap(pkt).ok = None THEN "malformed"
    ELSE ""

\* replies to a query or an execute: I/O error, ERR, or OK
CommandReplies(known) ==
    { None, Some(ErrPkt) }
    \cup (IF known THEN { Some(OkPkt(1, {})) } ELSE {})

\* replies to COM_STMT_PREPARE
PrepareReplies ==
    { None, Some(ErrPkt) }
    \cup (IF srv_prepared < MaxStmtId
          THEN { Some(PrepareOkPkt(srv_next_id, srv_session)) }
          ELSE {})

\* the status a reply may carry when it is set number `sets` of a response:
\* a further result set is announced only if the server has one
MoreFlags(sets) ==
    IF sets < MaxSets THEN { {}, {"SERVER_MORE_RESULTS_EXISTS"} } ELSE { {} }

\* first packets of result set number `sets` of the reply to a query or an
\* execute: a read deadline that passes, ERR, OK, or the head of a set of
\* rows
ResultReplies(sets) ==
    { Some(TimedOut), Some(ErrPkt) }
    \cup { Some(OkPkt(1, f)) : f \in MoreFlags(sets) }
    \cup { Some(ColumnsPkt(1, f)) : f \in { {}, {"SERVER_STATUS_IN_TRANS"} } }

\* replies to an execute: none is read if the parameters are rejected;
\* otherwise the server knows the statement or it does not.  An execute
\* whose parameters went ahead as long data is one that returns no rows.
ExecReplies(stmt, named_params, params, as_long_data) ==
    IF check_params(stmt, named_params, params) # "" THEN { None }
    ELSE IF stmt.id \notin srv_stmts THEN { Some(ErrPkt) }
    ELSE IF as_long_data THEN { Some(OkPkt(1, {})) }
    ELSE ResultReplies(1)

\* what follows the head of a result set, `rows` rows into set `sets`
RowReplies(rows, sets) ==
    { Some(TimedOut), Some(ErrPkt) }
    \cup { Some(TerminatorPkt(f)) : f \in MoreFlags(sets) }
    \cup { Some(LongTerminatorPkt(f)) : f \in MoreFlags(sets) }
    \cup (IF rows < MaxRows THEN { Some(RowPkt), Some(LongRowPkt) } ELSE {})

\* replies to COM_PING and COM_INIT_DB
PingReplies ==
    { Some(ErrPkt), Some(OkPkt(0, {})),
      Some(OkPkt(0, {"SERVER_STATUS_IN_TRANS"})) }

\* replies to the COM_STMT_PREPARE of a query with no or one parameter
ParamPrepareReplies ==
    { Some(ErrPkt) }
    \cup (IF srv_prepared < MaxStmtId
          THEN { Some(PrepareOkPktWith(srv_next_id, srv_session, n, 0)) :
                    n \in 0 .. 1 }
          ELSE {})

\* the lengths of the byte values a caller passes: the lengths at which the
\* number of chunks changes
ByteLens ==
    { 0, 1 } \cup { (k - 1) * (MAX_PAYLOAD_LEN - 6) + d :
                       k \in 2 .. MaxChunks, d \in 0 .. 1 }

\* the parameters a caller passes to exec
ParamSets ==
    { ParamsEmpty }
    \cup { ParamsPositional(1) }
    \cup { ParamsBytes(1, [i \in {0} |-> len]) : len \in ByteLens }
    \cup { ParamsNamed(names) : names \in { {"a"}, {"b"} } }

\* the names of a Statement with `n` parameters: none for a positional query
NamedParams(n) == { None } \cup (IF n = 1 THEN { Some(<<"a">>) } ELSE {})

IsCmd(e, cmd) == e.kind = "command" /\ e.cmd = cmd

\* number of commands `cmd` in a wire log
Count(w, cmd) == Cardinality({i \in DOMAIN w : IsCmd(w[i], cmd)})

\* statement ids closed by the COM_STMT_CLOSE commands of a wire log
ClosedIds(w) == {w[i].arg : i \in {j \in DOMAIN w : IsCmd(w[j], Command.COM_STMT_CLOSE)}}

\* the record kept of an operation: its name, whether it returned Ok, its
\* argument (query or statement id) and the statement id it returned.
\* For a prep: whether the cache held the query.  For a reset: how many
\* statements were cached and what affected_rows() returned before it, why
\* the COM_RESET_CONNECTION exchange fails if tried, whether the reconnect
\* succeeds if tried.
\* For any call: the error it returned ("" for Ok).  For an exec that was
\* rejected for its parameters: the connection state before it.  For a
\* drop: the statements of the cache, the stream and the link before it.
\* For a prep and an exec: (owner) the connection id the statement returned
\* or passed is tagged with.  For a prep of a query text: (call) the text.
\* For an exec: (call) the names of the Statement, the parameters, the
\* Statement and whether the request builder asks for long data.
\* For a close: (call) the query the cache held the statement's id for.
\* For a next_row: (before) has_results before the call, (call) the
\* packet the stream held, (ret) the row returned.
\* For new:
\* the handshake the server sent, if it could be parsed, the packets it
\* had to send after the HandshakeResponse, (ret) the value its reply
\* to SELECT @@max_allowed_packet converts to, and its answers to the init
\* commands.
LastOp(op, ok, arg) ==
    [op |-> op, ok |-> ok, arg |-> arg, hit |-> FALSE, ret |-> 0,
     cached |-> 0, rows |-> 0, soft_fail |-> "", hard_ok |-> FALSE,
     err |-> "", before |-> <<>>, hp |-> None, auth |-> <<>>,
     init |-> <<>>, infile |-> None, owner |-> 0, call |-> <<>>]

\* move `query` to the most recent end of the usage history
Touch(history, query) ==
    Append(SelectSeq(history, LAMBDA x : x # query), query)

(* ------------------------------- Init --------------------------------- *)

\* Opts that ask for nothing beyond the defaults
DefaultOpts ==
    [ssl_opts |-> FALSE, compress |-> FALSE, db_name |-> None,
     additional_capabilities |-> {}, socket |-> None, prefer_socket |-> FALSE,
     init |-> <<>>, local_infile_handler |-> FALSE]

\* ConnInner::empty(opts)
EmptyWith(o, size) ==
    [ opts |-> o, stmt_cache_size |-> size, stream |-> None,
      stmt_cache |-> StmtCacheNew, cache_cap |-> NewCacheCap(size),
      server_version |-> None, mariadb_server_version |-> None,
      ok_packet |-> None, capability_flags |-> {}, connection_id |-> 0,
      status_flags |-> {}, character_set |-> 0, last_command |-> 0,
      connected |-> FALSE, has_results |-> FALSE, seq_id |-> 0,
      max_allowed_packet |-> None, link |-> "down", wire |-> <<>>,
      reads |-> 0, err |-> "", panicked |-> FALSE, ret |-> None,
      seen_status |-> {} ]

\* ConnInner::empty
Empty(size) ==
    [ opts |-> DefaultOpts, stmt_cache_size |-> size, stream |-> None,
      stmt_cache |-> StmtCacheNew, cache_cap |-> NewCacheCap(size),
      server_version |-> None, mariadb_server_version |-> None,
      ok_packet |-> None, capability_flags |-> {}, connection_id |-> 0,
      status_flags |-> {}, character_set |-> 0, last_command |-> 0,
      connected |-> FALSE, has_results |-> FALSE, seq_id |-> 0,
      max_allowed_packet |-> None, link |-> "down", wire |-> <<>>,
      reads |-> 0, err |-> "", panicked |-> FALSE, ret |-> None,
      seen_status |-> {} ]

\* Conn::new on a reachable server, without prefer_socket and init commands:
\* connect_stream, then connect
new(size, versions) ==
    LET hs == [greeting |-> Some(OtherPkt),
               hp |-> Some(HandshakePacket(versions, 1)),
               secured |-> FALSE, auth |-> Some(OkPkt(0, {})),
               more |-> <<>>]
        resp == [first |-> Some(OtherPkt), value |-> 4194304]
    IN  connect(connect_stream(Empty(size), TRUE), hs, resp)

\* a `?` of Conn::new that returns the error drops the Conn
Leave(c) ==
    IF c.err # "" /\ ~c.panicked
    THEN [drop(Recover(c)) EXCEPT !.err = c.err]
    ELSE c

\* Conn::can_improved: with prefer_socket on a loopback address the server
\* is asked for @@socket (env.socket_var is its reply); the result is the
\* Opts with that socket if the caller's name none and the value is not
\* empty
can_improved(c, env) ==
    IF c.opts.prefer_socket
    THEN Try(get_system_var(c, env.socket_var), LAMBDA c1 :
             [c1 EXCEPT !.ret =
                 IF c1.opts.socket = None /\ Unwrap(c1.ret) # ""
                 THEN Some([c1.opts EXCEPT !.socket = c1.ret])
                 ELSE None])
    ELSE [c EXCEPT !.ret = None]

\* Conn::new, the improved connection: a second Conn is made with new_opts
\* and connected (env is what it meets); on success it takes the place of
\* `c`, which is dropped, on failure it is dropped and `c` stays.  The log
\* holds what went over either transport, in the order of time.
improve(c, new_opts, env) ==
    LET improved_conn ==
            Try(connect_stream(EmptyWith(new_opts, c.stmt_cache_size),
                               env.reachable),
                LAMBDA c1 : connect(c1, env.hs, env.sysvar))
    IN  IF Failed(improved_conn)
        THEN [c EXCEPT !.wire = @ \o drop(Recover(improved_conn)).wire,
                       !.ret = None]
        ELSE [improved_conn EXCEPT
                 !.wire = c.wire \o @
                          \o SubSeq(drop(c).wire, Len(c.wire) + 1,
                                    Len(drop(c).wire))]

\* Conn::new that goes on with the init commands after one has failed
RECURSIVE run_init_all(_, _, _)
run_init_all(c, cmds, replies) ==
    IF cmds = <<>> \/ c.panicked THEN c
    ELSE run_init_all(Recover(_query(c, Head(cmds), Reply(replies))),
                      Tail(cmds), Rest(replies))

\* Conn::new, the loop over opts.get_init(): query_drop(cmd)? for each
\* command.  `replies` are the server's answers, an OK or an ERR packet or
\* none in time.
RECURSIVE run_init(_, _, _)
run_init(c, cmds, replies) ==
    IF cmds = <<>> THEN c
    ELSE Try(_query(c, Head(cmds), Reply(replies)), LAMBDA c1 :
             run_init(c1, Tail(cmds), Rest(replies)))

\* Conn::new for the Opts of the empty connection `c`, whatever the server
\* does: connect_stream()?, connect()?, can_improved()? and the improved
\* connection, the init commands
new_with(c, env) ==
    LET made == Try(connect_stream(c, env.reachable),
                    LAMBDA c1 : connect(c1, env.hs, env.sysvar))
        asked == can_improved(made, env)
        best == IF asked.ret # None
                THEN improve(asked, Unwrap(asked.ret), env.socket_env)
                ELSE asked
    IN  IF Failed(made) THEN Leave(made)
        ELSE IF Failed(asked) THEN Leave(asked)
        ELSE IF best.opts.init = <<>> THEN [best EXCEPT !.ret = None]
        ELSE Leave(run_init([best EXCEPT !.ret = None], best.opts.init,
                            env.init))

\* the state after Conn::new has returned Ok, for a cache size and a server
\* version out of the given sets
Start(sizes, server_versions) ==
    \E size \in sizes, versions \in server_versions :
        \E c \in {new(size, versions)} :
            /\ opts = c.opts
            /\ stmt_cache_size = c.stmt_cache_size
            /\ stream = c.stream
            /\ stmt_cache = c.stmt_cache
            /\ cache_cap = c.cache_cap
            /\ server_version = c.server_version
            /\ mariadb_server_version = c.mariadb_server_version
            /\ ok_packet = c.ok_packet
            /\ capability_flags = c.capability_flags
            /\ connection_id = c.connection_id
            /\ status_flags = c.status_flags
            /\ character_set = c.character_set
            /\ last_command = c.last_command
            /\ connected = c.connected
            /\ has_results = c.has_results
            /\ seq_id = c.seq_id
            /\ max_allowed_packet = c.max_allowed_packet
            /\ link = c.link
            /\ wire = c.wire
            /\ panicked = c.panicked
            /\ reads = c.reads
            /\ srv_stmts = {}
            /\ srv_next_id = 1
            /\ srv_prepared = 0
            /\ srv_session = 0
            /\ srv_conn_count = 1
            /\ srv_version = versions
            /\ mutex = None
            /\ poisoned = FALSE
            /\ pc = [t \in Threads |-> Idle]
            /\ handles = {}
            /\ dropped = FALSE
            /\ dead_ops = 0
            /\ result = None
            /\ seen_status = c.seen_status
            /\ last_op = LastOp("new", TRUE, 0)
            /\ preps_only = TRUE
            /\ recent = <<>>
            /\ n_prepare_ok = 0
            /\ n_close_by_prep = 0

(* ------------------------------ actions ------------------------------- *)

\* the Conn exists and no QueryResult borrows it
Live == ~dropped /\ ~panicked /\ result = None

\* a command of the caller: on a link that is down it counts as a dead one
Attempt ==
    /\ Live
    /\ link = "down" => dead_ops < MaxDeadOps
    /\ dead_ops' = IF link = "down" THEN dead_ops + 1 ELSE dead_ops

\* an operation other than prep ends the run of preps
EndOfPreps ==
    /\ preps_only' = FALSE
    /\ recent' = <<>>
    /\ n_prepare_ok' = 0
    /\ n_close_by_prep' = 0

\* the server's prepared statements after it has seen the wire log `w`:
\* `issued` is the id it assigned in this exchange (None if it assigned none)
ServerStmts(w, issued) ==
    (srv_stmts \cup {Unwrap(issued) : x \in {y \in {1} : issued # None}})
        \ ClosedIds(w)

\* the id of the statement a call returned, 0 if it returned none
RetId(c) == IF c.ret = None THEN 0 ELSE Unwrap(c.ret).id

\* Queryable::prep: prep(query); `keep`: the caller keeps the handle
Prep(query, keep, pkt, cut) ==
    /\ Attempt
    \* no reply is read when the cache serves the query or the write fails
    /\ (contains_query(stmt_cache, query) \/ link = "down" \/ stream = None)
          => (pkt = None /\ ~cut)
    /\ \E c \in {_prepare(Self, query, pkt, cut)} :
       LET ok == ~Failed(c)
           answered == Count(c.wire, Command.COM_STMT_PREPARE) > 0
                          /\ pkt # None /\ Unwrap(pkt).b0 = OkByte
           issued == IF answered THEN Some(Unwrap(pkt).statement_id) ELSE None
           run == preps_only /\ ok
       IN  /\ keep => ok /\ Cardinality(handles \cup {Unwrap(c.ret)}) <= MaxHandles
           /\ Install(c)
           /\ srv_stmts' = ServerStmts(c.wire, issued)
           /\ srv_next_id' = IF answered THEN srv_next_id + 1 ELSE srv_next_id
           /\ srv_prepared' = IF answered THEN srv_prepared + 1 ELSE srv_prepared
           /\ handles' = IF keep THEN handles \cup {Unwrap(c.ret)} ELSE handles
           /\ last_op' = [LastOp("prep", ok, query) EXCEPT
                             !.hit = contains_query(stmt_cache, query),
                             !.ret = RetId(c),
                             !.owner = IF c.ret = None THEN 0
                                       ELSE Unwrap(c.ret).connection_id]
           /\ preps_only' = run
           /\ recent' = IF run THEN Touch(recent, query) ELSE <<>>
           /\ n_prepare_ok' = IF run
                              THEN n_prepare_ok + (IF answered THEN 1 ELSE 0)
                              ELSE 0
           /\ n_close_by_prep' =
                  IF run
                  THEN n_close_by_prep + Count(c.wire, Command.COM_STMT_CLOSE)
                  ELSE 0
    /\ UNCHANGED << srv_session, srv_conn_count, srv_version, handler_vars, dropped, result >>

\* the queries of the cache, least recently used first
CacheQueries == [i \in DOMAIN stmt_cache |-> stmt_cache[i].query]

\* Queryable::close: close(stmt) on a handle the caller holds; `retain`: the
\* caller closes a clone and keeps the handle
Close(stmt, retain) ==
    /\ Attempt
    /\ stmt \in handles
    /\ \E c \in {close(Self, stmt)} :
           /\ Install(c)
           /\ srv_stmts' = ServerStmts(c.wire, None)
           /\ last_op' = [LastOp("close", ~Failed(c), stmt.id) EXCEPT
                             !.call = SelectSeq(CacheQueries,
                                 LAMBDA q : Unwrap(by_query(stmt_cache, q)).stmt.id
                                               = stmt.id)]
    /\ handles' = IF retain THEN handles ELSE handles \ {stmt}
    /\ EndOfPreps
    /\ UNCHANGED << srv_next_id, srv_prepared, srv_session, srv_conn_count,
                    srv_version, handler_vars, dropped, result >>

\* the caller lets go of a handle (the Arc is released, nothing is written)
Release(stmt) ==
    /\ Live
    /\ stmt \in handles
    /\ handles' = handles \ {stmt}
    /\ UNCHANGED << conn_vars, env_vars, dropped, panicked, dead_ops, result,
                    hist_vars >>

\* the QueryResult a query or an execute returns: it borrows the Conn while
\* a result set is mid-stream or a further one is announced; it is over once
\* the response is drained or a read has returned an error.  It counts the
\* rows of the set and the sets of the response it has met.
Borrow(c, kind, rows, sets) ==
    IF ~Failed(c) /\ (c.has_results \/ more_results_exists(c))
    THEN Some([kind |-> kind, rows |-> rows, sets |-> sets])
    ELSE None

\* the connection state an exec must leave alone when it rejects the
\* parameters
Untouched(c) ==
    << c.ok_packet, c.has_results, c.status_flags, c.stmt_cache, c.seq_id,
       c.last_command, c.stream, c.connected >>

\* Queryable::exec_iter on a handle the caller holds, with the names of the
\* Statement and the caller's parameters; the server answers OK only for a
\* statement id it holds prepared
Exec(stmt, named_params, params, as_long_data, pkt) ==
    /\ Attempt
    /\ stmt \in handles
    /\ named_params # None => Len(Unwrap(named_params)) = stmt.num_params
    /\ (params.kind = "Empty" \/ check_params(stmt, named_params, params) # "")
          => ~as_long_data
    /\ (link = "down" \/ stream = None
           \/ stmt.connection_id # connection_id
           \/ check_params(stmt, named_params, params) # "") => pkt = None
    /\ \E c \in {exec_iter(Self, stmt, named_params, params, as_long_data, pkt)} :
           /\ Install(c)
           /\ result' = Borrow(c, "binary", 0, 1)
           /\ last_op' = [LastOp("exec", ~Failed(c), stmt.id) EXCEPT
                             !.err = c.err,
                             !.owner = stmt.connection_id,
                             !.call = << named_params, params, stmt,
                                         as_long_data >>,
                             !.before =
                                 IF check_params(stmt, named_params, params) # ""
                                 THEN Untouched(Self) ELSE <<>>]
    /\ UNCHANGED << srv_stmts, srv_next_id, srv_prepared, srv_session,
                    srv_conn_count, srv_version, handler_vars, handles, dropped, prep_vars >>

\* Queryable::query_iter
Query(pkt) ==
    /\ Attempt
    /\ (link = "down" \/ stream = None) => pkt = None
    /\ \E c \in {_query(Self, 0, pkt)} :
           /\ Install(c)
           /\ result' = Borrow(c, "text", 0, 1)
           /\ last_op' = [LastOp("query", ~Failed(c), 0) EXCEPT
                             !.err = c.err,
                             !.infile = IF pkt # None
                                           /\ Unwrap(pkt).b0 = LocalInfileByte
                                        THEN pkt ELSE None]
    /\ UNCHANGED << srv_stmts, srv_next_id, srv_prepared, srv_session,
                    srv_conn_count, srv_version, handler_vars, handles, dropped, prep_vars >>

\* the QueryResult reads on: the next row of the set that is mid-stream
\* (next_text for a query, next_bin for an execute), or a further call
\* once the set has ended
NextRow(pkt) ==
    /\ ~dropped /\ ~panicked
    /\ result # None
    /\ (link = "down" \/ ~has_results) => pkt = None
    /\ \E c \in {IF Unwrap(result).kind = "text" THEN next_text(Self, pkt)
                  ELSE next_bin(Self, pkt)} :
           /\ Install(c)
           /\ result' = Borrow(c, Unwrap(result).kind,
                               Unwrap(result).rows
                                  + (IF has_results THEN 1 ELSE 0),
                               Unwrap(result).sets)
           /\ last_op' = [LastOp("next_row", ~Failed(c), 0) EXCEPT
                             !.err = c.err, !.ret = c.ret,
                             !.before = << has_results >>,
                             !.call = << pkt >>]
    /\ UNCHANGED << env_vars_but_link, handles, dropped, dead_ops, prep_vars >>

\* the QueryResult moves to the next result set of the response, which the
\* status of the last terminator announced: handle_result_set
NextSet(pkt) ==
    /\ ~dropped /\ ~panicked
    /\ result # None
    /\ ~has_results
    /\ more_results_exists(Self)
    /\ link = "down" => pkt = None
    /\ \E c \in {handle_result_set(Self, pkt)} :
           /\ Install(c)
           /\ result' = Borrow(c, Unwrap(result).kind, 0,
                               Unwrap(result).sets + 1)
           /\ last_op' = [LastOp("next_set", ~Failed(c), 0) EXCEPT
                             !.err = c.err]
    /\ UNCHANGED << env_vars_but_link, handles, dropped, dead_ops, prep_vars >>

\* Conn::ping
Ping(pkt) ==
    /\ Attempt
    /\ (link = "down" \/ stream = None) => pkt = None
    /\ \E c \in {ping(Self, pkt)} :
           /\ Install(c)
           /\ last_op' = LastOp("ping", ~c.panicked /\ Unwrap(c.ret), 0)
    /\ UNCHANGED << env_vars_but_link, handles, dropped, result, prep_vars >>

\* Conn::select_db
SelectDb(pkt) ==
    /\ Attempt
    /\ (link = "down" \/ stream = None) => pkt = None
    /\ \E c \in {select_db(Self, 0, pkt)} :
           /\ Install(c)
           /\ last_op' = LastOp("select_db", ~c.panicked /\ Unwrap(c.ret), 0)
    /\ UNCHANGED << env_vars_but_link, handles, dropped, result, prep_vars >>

\* Conn::reset.  `pkt` answers COM_RESET_CONNECTION, `env` is what a
\* reconnect meets.  Either way the server session the statements lived in
\* is gone afterwards.
Reset(pkt, env) ==
    /\ Live
    /\ srv_session + 1 < MaxConns
    \* no reply is read when COM_RESET_CONNECTION is not written, and no
    \* reconnect is made when the exchange succeeds
    /\ (~supports_soft_reset(Self) \/ link = "down" \/ stream = None)
          => pkt = None
    /\ (supports_soft_reset(Self) /\ SoftFailure(pkt) \in {"", "panic"})
          => env = Unreachable(srv_conn_count + 1)
    /\ \E c \in {reset(Self, pkt, env)} :
       LET reconnected == \E i \in DOMAIN c.wire : c.wire[i].kind = "connect"
       IN  /\ Install(c)
           /\ last_op' = [LastOp("reset", ~Failed(c), 0) EXCEPT
                             !.cached = Len(stmt_cache),
                             !.rows = affected_rows(Self),
                             !.soft_fail = SoftFailure(pkt),
                             !.hard_ok = HardEnvOk(env)]
           /\ srv_stmts' = IF c.panicked THEN srv_stmts ELSE {}
           /\ srv_next_id' = IF reconnected THEN 1 ELSE srv_next_id
           /\ srv_session' = srv_session + 1
           /\ srv_conn_count' = IF reconnected /\ env.hs.greeting # None
                                THEN srv_conn_count + 1 ELSE srv_conn_count
    /\ EndOfPreps
    /\ UNCHANGED << srv_prepared, srv_version, handler_vars, handles, dropped, dead_ops,
                    result >>

\* Drop for Conn
Drop ==
    /\ Live
    /\ \E c \in {drop(Self)} :
           /\ Install(c)
           /\ srv_stmts' = {}
           /\ last_op' = [LastOp("drop", ~c.panicked, 0) EXCEPT
                             !.cached = Len(stmt_cache),
                             !.before = << into_iter(stmt_cache), stream,
                                           link >>]
           /\ dropped' = ~c.panicked
    /\ EndOfPreps
    /\ UNCHANGED << srv_next_id, srv_prepared, srv_session, srv_conn_count,
                    srv_version, handler_vars, handles, dead_ops, result >>

\* the network or the server goes away between two operations
LinkFails ==
    /\ Live
    /\ link = "up"
    /\ link' = "down"
    /\ UNCHANGED << conn_vars, srv_stmts, srv_next_id, srv_prepared,
                    srv_session, srv_conn_count, srv_version, handler_vars, caller_vars,
                    hist_vars >>

(* ------------------ the statement cache in use: Spec ------------------- *)
(* Every cache size, a server of either kind (one that is reset by         *)
(* reconnecting, one that takes COM_RESET_CONNECTION), and the calls that   *)
(* touch the cache.  A reset meets a server that answers or one that is    *)
(* gone.                                                                   *)

CacheVersions == { <<Some(<<5, 7, 3>>), None>>, <<Some(<<5, 7, 4>>), None>> }

CacheSoftReplies == { Some(ErrPkt), Some(OkPkt(0, {})) }

CacheHardEnvs(id) == { Unreachable(id), Reconnect(id) }

Init == Start(0 .. MaxCap, CacheVersions)

Next ==
    \/ \E query \in Queries, keep \in BOOLEAN, pkt \in PrepareReplies,
          cut \in BOOLEAN : Prep(query, keep, pkt, cut)
    \/ \E stmt \in handles, retain \in BOOLEAN : Close(stmt, retain)
    \/ \E stmt \in handles : Release(stmt)
    \/ \E stmt \in handles :
          \E pkt \in CommandReplies(stmt.id \in srv_stmts) :
              Exec(stmt, None, ParamsEmpty, FALSE, pkt)
    \/ \E pkt \in CacheSoftReplies \cup {None},
          env \in CacheHardEnvs(srv_conn_count + 1) : Reset(pkt, env)
    \/ Drop

Spec == Init /\ [][Next]_vars

(* ---------------------- preps alone: SpecPreps ------------------------- *)
(* Every cache size and nothing but prep calls, whose handles the caller   *)
(* keeps or lets go of.                                                    *)

InitPreps == Start(0 .. MaxCap, { <<Some(<<5, 7, 4>>), None>> })

NextPreps ==
    \/ \E query \in Queries, keep \in BOOLEAN, pkt \in PrepareReplies,
          cut \in BOOLEAN : Prep(query, keep, pkt, cut)
    \/ \E stmt \in handles : Release(stmt)

SpecPreps == InitPreps /\ [][NextPreps]_vars

(* ------------------------ reset: SpecReset ----------------------------- *)
(* One cached statement at most, every server version, every way the      *)
(* COM_RESET_CONNECTION exchange and the reconnect can go, and a link that  *)
(* can fail between two calls.                                             *)

InitReset == Start({1}, ServerVersions)

NextReset ==
    \/ \E pkt \in PrepareReplies : Prep(1, FALSE, pkt, FALSE)
    \/ \E pkt \in CommandReplies(TRUE) : Query(pkt)
    \/ \E pkt \in SoftReplies, env \in HardEnvs(srv_conn_count + 1) :
          Reset(pkt, env)
    \/ Drop
    \/ LinkFails

SpecReset == InitReset /\ [][NextReset]_vars

(* --------------------- the command layer: SpecCommands ----------------- *)
(* A cache of one statement with no or one parameter; executes with every   *)
(* kind of parameters; queries and executes answered by OK, ERR or result  *)
(* sets, whose rows the QueryResult reads; ping and select_db; a reset    *)
(* through COM_RESET_CONNECTION and drop.  The stream stays open: a read   *)
(* fails when its deadline passes.                                         *)

InitCommands == Start({1}, { <<Some(<<5, 7, 4>>), None>> })

NextCommands ==
    \/ \E pkt \in ParamPrepareReplies : Prep(1, TRUE, pkt, FALSE)
    \/ \E stmt \in handles : Close(stmt, FALSE)
    \/ \E stmt \in handles :
          \E named_params \in NamedParams(stmt.num_params),
             params \in ParamSets, as_long_data \in BOOLEAN :
              \E pkt \in ExecReplies(stmt, named_params, params, as_long_data) :
                  Exec(stmt, named_params, params, as_long_data, pkt)
    \/ \E pkt \in ResultReplies(1) : Query(pkt)
    \/ \E pkt \in {x \in RowReplies(0, 0) \cup {None} : result # None} :
          \E p \in {pkt} \cap (IF has_results
                               THEN RowReplies(Unwrap(result).rows,
                                               Unwrap(result).sets)
                               ELSE {None}) :
              NextRow(p)
    \/ \E pkt \in {x \in ResultReplies(1) : result # None} :
          \E p \in {pkt} \cap ResultReplies(Unwrap(result).sets + 1) :
              NextSet(p)
    \/ \E pkt \in PingReplies : Ping(pkt)
    \/ \E pkt \in PingReplies : SelectDb(pkt)
    \/ Reset(Some(OkPkt(0, {})), Unreachable(srv_conn_count + 1))
    \/ Drop

SpecCommands == InitCommands /\ [][NextCommands]_vars

(* ----------------------- the handshake: SpecHandshake ------------------ *)
(* Conn::new with every combination of the Opts the handshake reads, on a   *)
(* server that announces any protocol version, capability word and         *)
(* authentication plugin; a TLS upgrade that succeeds or fails; then ping,  *)
(* a reset that reconnects, and drop.  The transport is a TCP stream.       *)

\* the Opts do_handshake and get_client_flags read
HandshakeOpts ==
    [ ssl_opts : BOOLEAN, compress : BOOLEAN,
      db_name : { None, Some(""), Some("db") },
      additional_capabilities :
          { {}, {"CLIENT_FOUND_ROWS"}, {"CLIENT_LONG_FLAG"} },
      socket : { None, Some("/tmp/mysql.sock") },
      prefer_socket : { FALSE }, init : { <<>> },
      local_infile_handler : { FALSE } ]

\* capability words of the server: the ten bits the client always asks for,
\* with or without CLIENT_PROTOCOL_41, and some of the bits it asks for on
\* request
ServerCapabilities ==
    { ((ClientFlags \ lacks) \cup more) \cup rest :
        lacks \in { {}, {"CLIENT_PROTOCOL_41"} },
        more \in SUBSET { "CLIENT_SSL", "CLIENT_LONG_FLAG" },
        rest \in { {}, {"CLIENT_COMPRESS"},
                   {"CLIENT_CONNECT_WITH_DB", "CLIENT_FOUND_ROWS"},
                   {"CLIENT_COMPRESS", "CLIENT_CONNECT_WITH_DB",
                    "CLIENT_FOUND_ROWS"} } }

\* the usual course of a handshake: protocol version 10, the plugin
\* mysql_native_password, a TLS upgrade that succeeds, an OK
UsualCourse ==
    [pv |-> 10, plugin |-> Some("mysql_native_password"), sec |-> TRUE,
     auth |-> Some(OkPkt(0, {})), more |-> <<>>]

\* how a handshake goes that every server capability is tried with: the
\* protocol version, whether make_secure succeeds and whether the
\* password is accepted
HandshakeCourses ==
    { UsualCourse,
      [UsualCourse EXCEPT !.pv = 9],
      [UsualCourse EXCEPT !.sec = FALSE],
      [UsualCourse EXCEPT !.auth = Some(ErrPkt)] }

\* what the server sends once a plugin has sent its first data: the OK, or
\* an ERR packet
AuthEnds == { <<Some(OkPkt(0, {}))>>, <<Some(ErrPkt)>> }

\* what a server sends to a client that authenticates with
\* caching_sha2_password: OK for an empty password, fast authentication,
\* full authentication on a secure transport (the password is read) or on
\* an insecure one (the public key is sent, the encrypted password read)
Sha2Replies ==
    { <<Some(OkPkt(0, {}))>>, <<Some(AuthMoreDataPkt(5))>> }
    \cup { <<Some(AuthMoreDataPkt(3))>> \o e : e \in AuthEnds }
    \cup { <<Some(AuthMoreDataPkt(4))>> \o e : e \in AuthEnds }
    \cup { <<Some(AuthMoreDataPkt(4)), Some(AuthMoreDataPkt(0))>> \o e :
             e \in AuthEnds }

\* what the server sends to the first data of the plugin `pl`
PluginReplies(pl) ==
    IF pl = "caching_sha2_password" THEN Sha2Replies
    ELSE IF pl = "mysql_native_password" THEN AuthEnds
    ELSE { <<>> }

\* what the server sends after the HandshakeResponse, for the plugin the
\* handshake named: the replies of that plugin, or an auth-switch request
\* followed by the replies of the plugin asked for, among them a second
\* auth-switch request
AuthReplies(plugin) ==
    PluginReplies(plugin)
    \cup UNION { { <<Some(AuthSwitchPkt(pl))>> \o r :
                     r \in PluginReplies(pl)
                            \cup { <<Some(AuthSwitchPkt("mysql_native_password")),
                                     Some(OkPkt(0, {}))>> } } :
                 pl \in {"mysql_native_password", "caching_sha2_password",
                         "other"} }

\* how the authentication goes on a server that offers every capability:
\* the plugin the handshake names (none, one the client knows, another)
\* and the packets the server sends after the HandshakeResponse
AuthCourses ==
    { [UsualCourse EXCEPT !.plugin = Some("other")] }
    \cup
    UNION { { [UsualCourse EXCEPT !.plugin = pl, !.auth = Head(r),
                                  !.more = Tail(r)] :
                 r \in AuthReplies(IF pl = None THEN "mysql_native_password"
                                   ELSE Unwrap(pl)) } :
            pl \in { None, Some("caching_sha2_password") } }

\* what Conn::new meets: no server, a greeting that does not parse, or a
\* handshake packet followed by the reply to the HandshakeResponse
HandshakeEnvs(id) ==
    { Unreachable(id) }
    \cup
    { [reachable |-> TRUE,
       hs |-> [greeting |-> Some(OtherPkt), hp |-> None, secured |-> FALSE,
               auth |-> None, more |-> <<>>],
       sysvar |-> [first |-> None, value |-> 0]] }
    \cup
    { [reachable |-> TRUE,
       hs |-> [greeting |-> Some(OtherPkt),
               hp |-> Some(HandshakePacketOf(srv_version, id, k[2].pv,
                                             k[1], k[2].plugin)),
               secured |-> k[2].sec, auth |-> k[2].auth, more |-> k[2].more],
       sysvar |-> [first |-> Some(OtherPkt), value |-> 4194304]] :
         k \in (ServerCapabilities \X HandshakeCourses)
                  \cup ({ClientFlags \cup {"CLIENT_SSL", "CLIENT_COMPRESS"}}
                           \X AuthCourses) }
    \cup
    { [reachable |-> TRUE,
       hs |-> [greeting |-> Some(OtherPkt),
               hp |-> Some(HandshakePacket(srv_version, id)),
               secured |-> TRUE, auth |-> Some(OkPkt(0, {})), more |-> <<>>],
       sysvar |-> r] : r \in SysVarReplies }

\* what the reconnect of a reset meets: a server with or without CLIENT_SSL,
\* of protocol version 10 or not
ResetEnvs(id) ==
    { e \in HandshakeEnvs(id) :
        /\ e.hs.hp # None
        /\ e.hs.secured
        /\ e.hs.auth = Some(OkPkt(0, {}))
        /\ Unwrap(e.hs.hp).auth_plugin = Some("mysql_native_password")
        /\ e.hs.more = <<>>
        /\ Unwrap(e.hs.hp).capabilities
              \in { ClientFlags, ClientFlags \cup {"CLIENT_SSL"} } }

\* Conn::new
New(env) ==
    /\ last_op.op = "empty"
    /\ \E c \in {new_with(Self, env)} :
           /\ Install(c)
           /\ dropped' = Failed(c)
           /\ last_op' = [LastOp("new", ~Failed(c), 0) EXCEPT
                             !.err = c.err, !.hp = env.hs.hp,
                             !.ret = env.sysvar.value,
                             !.init = IF opts.init = <<>> THEN <<>>
                                      ELSE env.init,
                             !.auth = IF env.hs.hp = None THEN <<>>
                                      ELSE <<env.hs.auth>> \o env.hs.more]
           /\ srv_conn_count' = IF env.reachable THEN 1 ELSE 0
    /\ UNCHANGED << srv_stmts, srv_next_id, srv_prepared, srv_session,
                    srv_version, handler_vars, handles, dead_ops, result, prep_vars >>

\* ConnInner::empty(opts), for one of the given Opts: the Conn that Conn::new
\* is about to connect
EmptyConn(Opts) ==
    \E o \in Opts :
        \E c \in {EmptyWith(o, 1)} :
            /\ opts = c.opts
            /\ stmt_cache_size = c.stmt_cache_size
            /\ stream = c.stream
            /\ stmt_cache = c.stmt_cache
            /\ cache_cap = c.cache_cap
            /\ server_version = c.server_version
            /\ mariadb_server_version = c.mariadb_server_version
            /\ ok_packet = c.ok_packet
            /\ capability_flags = c.capability_flags
            /\ connection_id = c.connection_id
            /\ status_flags = c.status_flags
            /\ character_set = c.character_set
            /\ last_command = c.last_command
            /\ connected = c.connected
            /\ has_results = c.has_results
            /\ seq_id = c.seq_id
            /\ max_allowed_packet = c.max_allowed_packet
            /\ link = c.link
            /\ wire = c.wire
            /\ panicked = c.panicked
            /\ reads = c.reads
            /\ seen_status = c.seen_status
            /\ srv_stmts = {}
            /\ srv_next_id = 1
            /\ srv_prepared = 0
            /\ srv_session = 0
            /\ srv_conn_count = 0
            /\ srv_version = <<Some(<<5, 7, 3>>), None>>
            /\ mutex = None
            /\ poisoned = FALSE
            /\ pc = [t \in Threads |-> Idle]
            /\ handles = {}
            /\ dropped = FALSE
            /\ dead_ops = 0
            /\ result = None
            /\ last_op = LastOp("empty", TRUE, 0)
            /\ preps_only = TRUE
            /\ recent = <<>>
            /\ n_prepare_ok = 0
            /\ n_close_by_prep = 0

InitHandshake == EmptyConn(HandshakeOpts)

NextHandshake ==
    \/ \E env \in HandshakeEnvs(1) : New(env)
    \/ \E pkt \in PingReplies : last_op.op # "empty" /\ Ping(pkt)
    \/ \E env \in ResetEnvs(srv_conn_count + 1) :
          last_op.op # "empty" /\ Reset(None, env)
    \/ last_op.op # "empty" /\ Drop

SpecHandshake == InitHandshake /\ [][NextHandshake]_vars

(* ------------------------- Conn::new: SpecNew -------------------------- *)
(* Conn::new with and without prefer_socket on a loopback address, with a   *)
(* socket named by the caller or not, and with no, one or more init         *)
(* commands; the TCP connection, the query of @@socket, the connection     *)
(* over the socket and each init command succeed or fail.                   *)

\* the init commands of the Opts, each a query of its own
InitCommandsOf(n) == [i \in 1 .. n |-> 10 + i]

NewOpts ==
    { [DefaultOpts EXCEPT !.prefer_socket = p, !.socket = so,
                          !.init = InitCommandsOf(n)] :
        p \in BOOLEAN, so \in { None, Some("/tmp/mysql.sock") },
        n \in 0 .. MaxInit }

\* replies to SELECT @@socket: an I/O error, an ERR packet, an empty value,
\* the path of the server's socket
SocketVarReplies ==
    { [first |-> None, value |-> ""], [first |-> Some(ErrPkt), value |-> ""],
      [first |-> Some(OtherPkt), value |-> ""],
      [first |-> Some(OtherPkt), value |-> "/var/run/mysqld.sock"] }

\* what a connection meets: nobody listens, the authentication fails, the
\* value of max_allowed_packet is of no use, or all goes well
ConnectEnvs(id) ==
    { Unreachable(id), Reconnect(id),
      [Reconnect(id) EXCEPT !.hs.auth = Some(ErrPkt)],
      [Reconnect(id) EXCEPT !.sysvar.value = 0] }

\* the server's answers to n init commands
InitReplies(n) ==
    [1 .. n -> { Some(OkPkt(0, {})), Some(ErrPkt), Some(TimedOut) }]

\* what Conn::new meets for Opts with n init commands: the TCP connection,
\* the reply to SELECT @@socket, the connection over the socket, the
\* answers to the init commands
NewEnvs(id, n) ==
    { [reachable |-> t.reachable, hs |-> t.hs, sysvar |-> t.sysvar,
       socket_var |-> v, socket_env |-> e, init |-> r] :
         t \in { Reconnect(id), [Reconnect(id) EXCEPT !.hs.auth = Some(ErrPkt)] },
         v \in SocketVarReplies, e \in ConnectEnvs(id + 1),
         r \in InitReplies(n) }

InitNew == EmptyConn(NewOpts)

NextNew ==
    \/ \E env \in NewEnvs(1, Len(opts.init)) : New(env)
    \/ \E pkt \in PingReplies : last_op.op # "empty" /\ Ping(pkt)
    \/ last_op.op # "empty" /\ Drop

SpecNew == InitNew /\ [][NextNew]_vars

(* ------------------------ LOCAL INFILE: SpecInfile --------------------- *)
(* A connection with and without a LOCAL INFILE handler in its Opts; the   *)
(* server answers a query with OK or with a LOCAL INFILE request; the       *)
(* handler writes some frames and returns Ok or Err; the server's final     *)
(* packet is OK or ERR, or none comes in time.                              *)

InfileOpts ==
    { [DefaultOpts EXCEPT !.local_infile_handler = h] : h \in BOOLEAN }

InfileReplies ==
    { Some(OkPkt(1, {})) }
    \cup { Some(LocalInfilePkt(frames, handler_ok, final)) :
             frames \in 0 .. MaxFrames, handler_ok \in BOOLEAN,
             final \in { Some(OkPkt(1, {})), Some(ErrPkt), Some(TimedOut) } }

InitInfile == EmptyConn(InfileOpts)

NextInfile ==
    \/ New(Reconnect(1))
    \/ \E pkt \in InfileReplies : last_op.op # "empty" /\ Query(pkt)
    \/ \E pkt \in PingReplies : last_op.op # "empty" /\ Ping(pkt)
    \/ last_op.op # "empty" /\ Drop

SpecInfile == InitInfile /\ [][NextInfile]_vars

(* ------------------- the shared handler: SpecThreads ------------------- *)
(* NumThreads threads, each with a connection of its own, whose Opts hold   *)
(* clones of one LocalInfileHandler (an Arc<Mutex<..>>).  Each thread goes  *)
(* through send_local_infile again and again: it locks the handler, the     *)
(* handler writes frames and returns Ok or Err, the guard is dropped, the   *)
(* exchange is ended; or the handler panics, and its thread unwinds.        *)

\* Mutex::lock lets every caller through, held or not
lock_always(m, t) == TRUE

\* Mutex::lock: the caller blocks while another thread holds the mutex
lock(m, t) == m = None

\* the server asks for a file: send_local_infile clones the handler
Request(t) ==
    /\ pc[t].at = "idle"
    /\ pc' = [pc EXCEPT ![t].at = "lock"]
    /\ UNCHANGED << mutex, poisoned >>

\* handler.0.lock().unwrap(): the guard lives to the end of the `if let`;
\* the lock of a poisoned mutex returns Err(PoisonError), on which unwrap
\* panics, and the guard inside the error is dropped
LockHandler(t) ==
    /\ pc[t].at = "lock"
    /\ lock(mutex, t)
    /\ mutex' = IF poisoned THEN mutex ELSE Some(t)
    /\ pc' = [pc EXCEPT ![t].at = IF poisoned THEN "unwrap_panicked"
                                  ELSE "handler"]
    /\ UNCHANGED poisoned

\* handler_fn(file_name, &mut local_infile), a frame written by the handler
HandlerWrites(t) ==
    /\ pc[t].at = "handler"
    /\ pc[t].frames < MaxFrames
    /\ pc' = [pc EXCEPT ![t].frames = @ + 1]
    /\ UNCHANGED << mutex, poisoned >>

\* handler_fn returns: the guard is dropped at the end of the `if let`
\* block, or by the `?` that returns the handler's Err
HandlerReturns(t, ok) ==
    /\ pc[t].at = "handler"
    /\ mutex' = IF mutex = Some(t) THEN None ELSE mutex
    /\ pc' = [pc EXCEPT ![t] = IF ok THEN [@ EXCEPT !.at = "end"] ELSE Idle]
    /\ UNCHANGED poisoned

\* handler_fn panics: the thread unwinds, and the guard that is dropped
\* while it does poisons the mutex
HandlerPanics(t) ==
    /\ pc[t].at = "handler"
    /\ mutex' = IF mutex = Some(t) THEN None ELSE mutex
    /\ poisoned' = TRUE
    /\ pc' = [pc EXCEPT ![t].at = "handler_panicked"]

\* the flush, the empty packet and the final packet
EndInfile(t) ==
    /\ pc[t].at = "end"
    /\ pc' = [pc EXCEPT ![t] = Idle]
    /\ UNCHANGED << mutex, poisoned >>

InitThreads == EmptyConn({DefaultOpts})

NextThreads ==
    \/ \E t \in Threads : Request(t) /\ UNCHANGED other_vars
    \/ \E t \in Threads : LockHandler(t) /\ UNCHANGED other_vars
    \/ \E t \in Threads : HandlerWrites(t) /\ UNCHANGED other_vars
    \/ \E t \in Threads, ok \in BOOLEAN :
          HandlerReturns(t, ok) /\ UNCHANGED other_vars
    \/ \E t \in Threads : HandlerPanics(t) /\ UNCHANGED other_vars
    \/ \E t \in Threads : EndInfile(t) /\ UNCHANGED other_vars

SpecThreads == InitThreads /\ [][NextThreads]_vars

(* ----------------------- named parameters: SpecNamed ------------------ *)
(* A cache of one statement; the caller prepares queries with named and     *)
(* with positional parameters, keeps the Statements, executes them with    *)
(* named and positional parameters, and closes them.                       *)

NamedQueries ==
    { << Sql("SELECT "), Named("foo") >>, << Sql("SELECT "), Named("bar") >>,
      << Sql("SELECT "), Mark >>, << Sql("SELECT 1") >> }

\* the server's reply to the COM_STMT_PREPARE of a query: ERR, or a
\* statement with one parameter for every `?`
NamedPrepareReplies(query) ==
    { Some(ErrPkt) }
    \cup (IF srv_prepared < MaxStmtId
          THEN { Some(PrepareOkPktWith(srv_next_id, srv_session,
                     Len(SelectSeq(query, LAMBDA t : t.kind # "sql")), 0)) }
          ELSE {})

\* the parameters the caller passes to exec
NamedParamSets ==
    { ParamsEmpty, ParamsPositional(1), ParamsNamed({"foo"}),
      ParamsNamed({"bar"}) }

\* the server's reply to an execute: none is read if the parameters are
\* rejected; ERR for a statement the server does not hold
NamedExecReplies(stmt, params) ==
    IF check_params(stmt, stmt.named_params, params) # "" THEN { None }
    ELSE IF stmt.id \notin srv_stmts THEN { Some(ErrPkt) }
    ELSE { Some(OkPkt(1, {})) }

\* Queryable::prep with the text of the query; the caller keeps the
\* Statement
PrepStatement(query, pkt) ==
    /\ Attempt
    /\ (contains_query(stmt_cache, parse_named_params(query).real_query)
           \/ link = "down" \/ stream = None) => pkt = None
    /\ \E c \in {prep(Self, query, pkt)} :
       LET ok == ~Failed(c)
           answered == Count(c.wire, Command.COM_STMT_PREPARE) > 0
                          /\ pkt # None /\ Unwrap(pkt).b0 = OkByte
           issued == IF answered THEN Some(Unwrap(pkt).statement_id) ELSE None
       IN  /\ ok => Cardinality(handles \cup {Unwrap(c.ret)}) <= MaxStatements
           /\ Install(c)
           /\ srv_stmts' = ServerStmts(c.wire, issued)
           /\ srv_next_id' = IF answered THEN srv_next_id + 1 ELSE srv_next_id
           /\ srv_prepared' = IF answered THEN srv_prepared + 1 ELSE srv_prepared
           /\ handles' = IF ok THEN handles \cup {Unwrap(c.ret)} ELSE handles
           /\ last_op' = [LastOp("prep", ok, 0) EXCEPT
                             !.hit = contains_query(stmt_cache,
                                         parse_named_params(query).real_query),
                             !.ret = RetId(c),
                             !.call = << query >>,
                             !.owner = IF c.ret = None THEN 0
                                       ELSE Unwrap(c.ret).connection_id]
    /\ EndOfPreps
    /\ UNCHANGED << srv_session, srv_conn_count, srv_version, handler_vars,
                    dropped, result >>

InitNamed == Start({1}, { <<Some(<<5, 7, 4>>), None>> })

NextNamed ==
    \/ \E query \in NamedQueries :
          \E pkt \in NamedPrepareReplies(query) \cup {None} :
              PrepStatement(query, pkt)
    \/ \E stmt \in handles, params \in NamedParamSets :
          \E pkt \in NamedExecReplies(stmt, params) :
              Exec(stmt, stmt.named_params, params, FALSE, pkt)
    \/ \E stmt \in handles : Close(stmt, FALSE)

SpecNamed == InitNamed /\ [][NextNamed]_vars

(* ------------------- parameters of an execute: SpecParams -------------- *)
(* Statements without parameters and with MaxParams parameters, executed   *)
(* with lists of values of which any may be Value::Bytes of a length at    *)
(* which the number of chunks changes, and with lists of another length    *)
(* than the statement has parameters, 65536 values more among them.        *)

\* replies to COM_STMT_PREPARE of a statement without or with parameters
ParamsPrepareReplies ==
    IF srv_prepared < MaxStmtId
    THEN { Some(PrepareOkPktWith(srv_next_id, srv_session, n, 0)) :
              n \in { 0, MaxParams } }
    ELSE {}

\* the lists of n values: every choice of the values that are Value::Bytes
\* and of their lengths
ValueLists(n) ==
    { ParamsBytes(n, bytes) :
        bytes \in UNION { [at -> ByteLens] : at \in SUBSET (0 .. n - 1) } }

\* the parameters a caller passes to exec of a statement of n parameters
ListsFor(n) ==
    { ParamsEmpty } \cup ValueLists(n)
    \cup { ParamsPositional(k) : k \in { n + 1, 65535, 65536 + n } }

\* replies to COM_STMT_EXECUTE
ParamsExecReplies(stmt, params) ==
    IF check_params(stmt, None, params) # "" THEN { None }
    ELSE IF stmt.id \notin srv_stmts \/ params.n # stmt.num_params
    THEN { Some(ErrPkt) }
    ELSE { Some(OkPkt(1, {})) }

InitParams == Start({1}, { <<Some(<<5, 7, 4>>), None>> })

NextParams ==
    \/ \E pkt \in ParamsPrepareReplies : Prep(1, TRUE, pkt, FALSE)
    \/ \E stmt \in handles, as_long_data \in BOOLEAN :
          \E params \in ListsFor(stmt.num_params) :
              \E pkt \in ParamsExecReplies(stmt, params) :
                  Exec(stmt, None, params, as_long_data, pkt)
    \/ \E stmt \in handles : Close(stmt, FALSE)

SpecParams == InitParams /\ [][NextParams]_vars

(* ------------------------------ properties ---------------------------- *)

Min(a, b) == IF a < b THEN a ELSE b

\* the last n elements of a sequence
LastN(seq, n) == SubSeq(seq, Len(seq) - n + 1, Len(seq))


\* the statement ids the cache holds
CacheIds == { stmt_cache[i].stmt.id : i \in DOMAIN stmt_cache }

\* C1: whatever prep, close, exec, reset and drop calls have run on a
\* connection created with stmt_cache_size = N, the statement cache holds at
\* most N entries, and none when N = 0.
C1_CacheWithinCapacity ==
    /\ Len(stmt_cache) <= stmt_cache_size
    /\ stmt_cache_size = 0 => stmt_cache = <<>>

\* a prep has just missed on a full cache of the largest size
C1_Witness ==
    /\ stmt_cache_size = MaxCap
    /\ last_op.op = "prep" /\ last_op.ok /\ ~last_op.hit
    /\ n_prepare_ok = MaxCap + 1
    /\ Len(stmt_cache) = MaxCap

\* C2: the cache is LRU.  After any sequence of preps the cache holds, least
\* recently used first, exactly the N most recently used distinct queries:
\* a hit has moved its entry to the most-recently-used end, a miss on a full
\* cache has evicted the least recently used entry.
C2_CacheIsLru ==
    preps_only =>
        CacheQueries = LastN(recent, Min(stmt_cache_size, Len(recent)))

\* query 1 was prepared first, hit after query 2 was prepared, and so
\* survived the eviction the third miss caused
C2_Witness ==
    /\ preps_only
    /\ stmt_cache_size = 2
    /\ n_prepare_ok = 3
    /\ Len(stmt_cache) = 2
    /\ stmt_cache[1].stmt.id = 1
    /\ stmt_cache[2].stmt.id = 3

C4_HitIsSilent ==
    (last_op.op = "prep" /\ last_op.hit) =>
        /\ last_op.ok
        /\ wire = <<>>
        /\ reads = 0
        /\ \E i \in DOMAIN stmt_cache :
               /\ stmt_cache[i].query = last_op.arg
               /\ stmt_cache[i].stmt.id = last_op.ret

\* a prep has hit the cache
C4_Witness ==
    /\ last_op.op = "prep" /\ last_op.hit /\ last_op.ok
    /\ last_op.ret > 0
    /\ n_prepare_ok > 0

\* C5: with stmt_cache_size = 0 every prep that returns a statement has sent
\* a COM_STMT_PREPARE and returns the statement the server has just made;
\* prep never writes a COM_STMT_CLOSE; each explicit close writes exactly one
\* COM_STMT_CLOSE and nothing else writes any, so as many are written as
\* there are explicit close calls.
C5_NoCachingAtSizeZero ==
    stmt_cache_size = 0 =>
        /\ (last_op.op = "prep" /\ last_op.ok) =>
               /\ ~last_op.hit
               /\ Count(wire, Command.COM_STMT_PREPARE) = 1
               /\ last_op.ret = srv_next_id - 1
        /\ last_op.op = "prep" => Count(wire, Command.COM_STMT_CLOSE) = 0
        /\ (last_op.op = "close" /\ last_op.ok) =>
               /\ Count(wire, Command.COM_STMT_CLOSE) = 1
               /\ ClosedIds(wire) = {last_op.arg}
        /\ last_op.op # "close" => Count(wire, Command.COM_STMT_CLOSE) = 0

\* a statement prepared without a cache has been closed by the caller
C5_Witness ==
    /\ stmt_cache_size = 0
    /\ last_op.op = "close" /\ last_op.ok
    /\ srv_prepared >= 2

\* the caller's handles of the session the connection is in
LiveHandleIds ==
    { h.id : h \in { x \in handles : x.sess = srv_session
                                       /\ x.connection_id = connection_id } }

\* C6: a prep that evicts a cached statement writes no COM_STMT_CLOSE for
\* the id of a statement the caller still holds a handle to.
C6_EvictionSparesHeldStatement ==
    last_op.op = "prep" => ClosedIds(wire) \cap LiveHandleIds = {}

\* C7: after every successful reset, through COM_RESET_CONNECTION or through
\* a reconnect, the statement cache is empty; a prep that then returns a
\* statement without a hit has sent a COM_STMT_PREPARE; every statement in
\* the cache was issued by the current server session.
C7_ResetEmptiesCache ==
    /\ (last_op.op = "reset" /\ last_op.ok) => stmt_cache = <<>>
    /\ \A i \in DOMAIN stmt_cache : stmt_cache[i].stmt.sess = srv_session
    /\ (last_op.op = "prep" /\ last_op.ok /\ ~last_op.hit) =>
           Count(wire, Command.COM_STMT_PREPARE) = 1

\* a reset has succeeded on a connection with a full cache
C7_Witness ==
    /\ last_op.op = "reset" /\ last_op.ok
    /\ last_op.cached = MaxCap

\* the version test of the claims C8 and C9, on the versions the connection
\* has parsed from the handshake: MySQL > 5.7.3 or MariaDB >= 10.2.7
MySqlAbove573 ==
    /\ server_version # None
    /\ LET v == Unwrap(server_version)
       IN  v[1] > 5 \/ (v[1] = 5 /\ (v[2] > 7 \/ (v[2] = 7 /\ v[3] > 3)))

MariaDbFrom1027 ==
    /\ mariadb_server_version # None
    /\ LET v == Unwrap(mariadb_server_version)
       IN  v[1] > 10 \/ (v[1] = 10 /\ (v[2] > 2 \/ (v[2] = 2 /\ v[3] >= 7)))

\* C8: reset first writes COM_RESET_CONNECTION exactly when the server is
\* MySQL > 5.7.3 or MariaDB >= 10.2.7 (and the write is possible); for every
\* other version, or none, it writes no COM_RESET_CONNECTION and tears the
\* transport down to reconnect.
C8_SoftResetByVersion ==
    last_op.op = "reset" =>
        IF MySqlAbove573 \/ MariaDbFrom1027
        THEN last_op.soft_fail \notin {"write", "panic"} =>
                 /\ wire # <<>>
                 /\ IsCmd(wire[1], Command.COM_RESET_CONNECTION)
        ELSE /\ Count(wire, Command.COM_RESET_CONNECTION) = 0
             /\ wire # <<>> => wire[1].kind = "connect"
             /\ wire = <<>> => stream = None /\ ~last_op.ok

\* a reset on MySQL 5.7.4 has written COM_RESET_CONNECTION first
C8_Witness ==
    /\ last_op.op = "reset"
    /\ server_version = Some(<<5, 7, 4>>)
    /\ wire # <<>>
    /\ IsCmd(wire[1], Command.COM_RESET_CONNECTION)

\* C9: when the COM_RESET_CONNECTION attempt fails (write error, read error,
\* ERR packet, a reply that is no well-formed OK), reset goes on to
\* reconnect and returns Ok exactly when the reconnect succeeds.
C9_FailedSoftResetReconnects ==
    (/\ last_op.op = "reset"
     /\ MySqlAbove573 \/ MariaDbFrom1027
     /\ last_op.soft_fail \in {"write", "read", "err", "not_ok", "malformed"})
    =>  /\ last_op.ok <=> last_op.hard_ok
        /\ last_op.ok => \E i \in DOMAIN wire : wire[i].kind = "connect"
        /\ ~last_op.ok => ~connected

\* the server answered COM_RESET_CONNECTION with an ERR packet and the
\* reconnect went through
C9_Witness ==
    /\ last_op.op = "reset" /\ last_op.ok
    /\ last_op.soft_fail = "err"
    /\ wire # <<>>
    /\ IsCmd(wire[1], Command.COM_RESET_CONNECTION)
    /\ connected

\* C10: after any successful reset affected_rows() returns 0.
C10_ResetClearsAffectedRows ==
    (last_op.op = "reset" /\ last_op.ok) => affected_rows(Self) = 0

\* COM_RESET_CONNECTION has succeeded on a connection that reported an
\* affected row before
C10_Witness ==
    /\ last_op.op = "reset" /\ last_op.ok
    /\ last_op.rows = 1
    /\ last_op.soft_fail = ""
    /\ Count(wire, Command.COM_RESET_CONNECTION) = 1

\* the errors _execute returns for parameters that do not fit the statement
ParamErrors ==
    { "MismatchedStmtParams", "NamedParamsForPositionalQuery",
      "MissingNamedParameter" }

\* C11: when exec fails with MismatchedStmtParams, NamedParamsForPositionalQuery
\* or MissingNamedParameter, it has written nothing (no
\* COM_STMT_SEND_LONG_DATA, no COM_STMT_EXECUTE) and read nothing, and
\* last_ok, has_results, status_flags, the cache, the sequence id,
\* last_command and the transport are what they were before the call.
C11_RejectedExecLeavesConnAlone ==
    (last_op.op = "exec" /\ last_op.err \in ParamErrors) =>
        /\ wire = <<>>
        /\ reads = 0
        /\ last_op.before = Untouched(Self)
        /\ ~panicked

\* an exec whose parameter count is not the statement's has been rejected
\* on a connection that holds an OK packet and has exchanged packets
C11_Witness ==
    /\ last_op.op = "exec"
    /\ last_op.err = "MismatchedStmtParams"
    /\ ok_packet # None
    /\ seq_id > 0
    /\ stmt_cache # <<>>

\* the last operation has written a command
WroteCommand == \E i \in DOMAIN wire : wire[i].kind = "command"

\* C12: last_ok is null after a server ERR packet and from the start of a
\* new command until an OK packet of that command is taken in: after an
\* operation that wrote a command and either failed or is one whose reply
\* is not kept (prep, close, ping, select_db), ok_packet is None, so
\* affected_rows() does not report an earlier command's value.
C12_LastOkOfCurrentCommand ==
    /\ last_op.err = "MySqlError" => ok_packet = None
    /\ (/\ WroteCommand
        /\ \/ last_op.op \in {"prep", "close", "ping", "select_db"}
           \/ (last_op.op \in {"query", "exec"} /\ ~last_op.ok))
       => ok_packet = None

\* C13: between commands exactly one of "last_ok is present", "has_results
\* is true" and "idle" (neither) holds: an OK packet is never kept while a
\* result set is mid-stream.
C13_OkOrResultsOrIdle == ~(ok_packet # None /\ has_results)

\* C14: no command is written while has_results is true, whatever the
\* sequence of operations (prep and its evictions, exec, query, ping,
\* select_db, reset, drop).
C14_NoCommandMidStream ==
    \A i \in DOMAIN wire : wire[i].kind = "command" => ~wire[i].has_results

\* C15: status_flags is the status bitfield of the most recent OK or EOF
\* packet the connection has read (authentication OK, command OK, result-set
\* terminator, the EOF after the column definitions, the replies to ping and
\* select_db).
C15_StatusOfLastOkOrEof == connected => status_flags = seen_status

\* C16: every command that is written, the COM_STMT_SEND_LONG_DATA chunks and
\* COM_STMT_CLOSE included, leaves in a frame with sequence id 0 and with
\* last_command set to its opcode.
C16_CommandResetsSeqId ==
    \A i \in DOMAIN wire :
        wire[i].kind = "command" =>
            wire[i].seq = 0 /\ wire[i].last_command = wire[i].cmd

C16_Witness ==
    /\ last_op.op = "exec"
    /\ last_op.ok
    /\ \E i \in DOMAIN wire :
          /\ i + 1 \in DOMAIN wire
          /\ wire[i].cmd = Command.COM_STMT_SEND_LONG_DATA
          /\ wire[i + 1].cmd = Command.COM_STMT_EXECUTE

\* C17: sync_seq_id is called exactly when the reader starts a further
\* result set of the same response, never while the first response to a new
\* command is read, whatever happened before.
C17_SyncOnlyBetweenResultSets ==
    /\ (\E i \in DOMAIN wire : wire[i].kind = "sync_seq_id")
           => last_op.op = "next_set"
    /\ (last_op.op = "next_set" /\ ~panicked)
           => wire # <<>> /\ wire[1].kind = "sync_seq_id"

\* the last operation made a transport and wrote no packet on it
WroteNothing == \A i \in DOMAIN wire : wire[i].kind = "connect"

Desired(S, o) ==
    ClientFlags
        \cup (S \cap {"CLIENT_LONG_FLAG"})
        \cup (IF o.compress THEN {"CLIENT_COMPRESS"} ELSE {})
        \cup (IF o.db_name # None /\ Unwrap(o.db_name) # ""
              THEN {"CLIENT_CONNECT_WITH_DB"} ELSE {})
        \cup (IF o.ssl_opts /\ o.socket = None THEN {"CLIENT_SSL"} ELSE {})
        \cup o.additional_capabilities

\* C20: the negotiated capability_flags are the server's capability word S
\* intersected with the desired set: the ten fixed bits, CLIENT_LONG_FLAG if
\* S has it, CLIENT_COMPRESS if compression is requested,
\* CLIENT_CONNECT_WITH_DB for a non-empty schema, CLIENT_SSL if TLS is
\* requested on an insecure transport, and the additional capabilities.
C20_NegotiatedCapabilities ==
    (last_op.op = "new" /\ last_op.ok /\ connected)
        => capability_flags =
              Unwrap(last_op.hp).capabilities
                  \cap Desired(Unwrap(last_op.hp).capabilities, opts)

\* the kinds of the packets the last operation wrote, in order
Kinds == [i \in DOMAIN wire |-> wire[i].kind]

Wrote(kind) == \E i \in DOMAIN wire : wire[i].kind = kind

\* Conn::new got a handshake that passed the checks of the protocol version
\* and of CLIENT_PROTOCOL_41, and the TLS step, if there was one, went well
ReachedPluginCheck ==
    /\ last_op.op = "new" /\ last_op.hp # None
    /\ Unwrap(last_op.hp).protocol_version = 10
    /\ "CLIENT_PROTOCOL_41" \in Unwrap(last_op.hp).capabilities
    /\ (opts.ssl_opts /\ opts.socket = None) => Wrote("make_secure")

\* C21: a handshake that names a plugin other than mysql_native_password
\* and caching_sha2_password fails with UnknownAuthPlugin and no
\* HandshakeResponse is written; one that names none is answered with
\* mysql_native_password.
C21_UnknownPluginUnanswered ==
    ReachedPluginCheck =>
        /\ PluginOf(Unwrap(last_op.hp))
               \notin {"mysql_native_password", "caching_sha2_password"} =>
              /\ last_op.err = "UnknownAuthPlugin"
              /\ ~Wrote("handshake_response")
              /\ ~connected
        /\ PluginOf(Unwrap(last_op.hp))
               \in {"mysql_native_password", "caching_sha2_password"} =>
              Wrote("handshake_response")
        /\ \A i \in DOMAIN wire :
              wire[i].kind = "handshake_response" =>
                  wire[i].arg.auth_plugin =
                      IF Unwrap(last_op.hp).auth_plugin = None
                      THEN "mysql_native_password"
                      ELSE Unwrap(Unwrap(last_op.hp).auth_plugin)

C21_Witness ==
    /\ ReachedPluginCheck
    /\ last_op.err = "UnknownAuthPlugin"
    /\ Unwrap(last_op.hp).auth_plugin = Some("other")
    /\ Wrote("make_secure")

\* the server's auth-switch request at position i of what it sent after the
\* HandshakeResponse
IsSwitch(i) ==
    /\ i \in DOMAIN last_op.auth
    /\ last_op.auth[i] # None
    /\ parse_auth_switch_request(Unwrap(last_op.auth[i])) # None

\* the server asked for a switch to a plugin the client knows and then for
\* another switch
SecondSwitch ==
    /\ ReachedPluginCheck
    /\ PluginOf(Unwrap(last_op.hp))
           \in {"mysql_native_password", "caching_sha2_password"}
    /\ IsSwitch(1) /\ IsSwitch(2)
    /\ Unwrap(parse_auth_switch_request(Unwrap(last_op.auth[1])))
           \in {"mysql_native_password", "caching_sha2_password"}

AskedFullAuth(i) ==
    /\ i \in DOMAIN last_op.auth
    /\ last_op.auth[i] = Some(AuthMoreDataPkt(4))

\* C23: the password is written in the clear only after the server's
\* 0x01 0x04 under caching_sha2_password and only on a TLS transport or a
\* Unix socket; on a plain TCP transport the client asks for the public
\* key and writes the password encrypted only.
C23_NoCleartextOnPlainTcp ==
    \A i \in DOMAIN wire :
        /\ wire[i].kind = "cleartext_password" =>
              /\ wire[i].stream \in {"tls", "socket"}
              /\ last_op.op = "new"
              /\ AskedFullAuth(1) \/ (IsSwitch(1) /\ AskedFullAuth(2))
        /\ wire[i].kind = "public_key_request" =>
              /\ wire[i].stream = "tcp"
              /\ AskedFullAuth(1) \/ (IsSwitch(1) /\ AskedFullAuth(2))
        /\ wire[i].kind = "encrypted_password" =>
              /\ i > 1
              /\ wire[i - 1].kind = "public_key_request"

C23_Witness ==
    /\ last_op.op = "new"
    /\ connected
    /\ \E i \in DOMAIN wire :
          wire[i].kind = "cleartext_password" /\ wire[i].stream = "tls"

\* the packets of the handshake and of the authentication
HandshakeKinds ==
    { "ssl_request", "handshake_response", "auth_switch_response",
      "cleartext_password", "public_key_request", "encrypted_password" }

\* C24: the codec is switched to the compressed envelope exactly when
\* CLIENT_COMPRESS has been negotiated, after the authentication has
\* succeeded and before the first command: every packet of the handshake
\* and of the authentication goes uncompressed, SELECT @@max_allowed_packet
\* goes compressed, and a handshake that fails never switches.
C24_CompressedAfterAuth ==
    last_op.op \in {"new", "reset"} =>
        \A i \in DOMAIN wire :
            /\ wire[i].kind = "compress" =>
                  /\ "CLIENT_COMPRESS" \in capability_flags
                  /\ i < Len(wire)
                  /\ wire[i + 1].kind = "command"
                  /\ wire[i + 1].cmd = Command.COM_QUERY
                  /\ \A j \in 1 .. i - 1 :
                        wire[j].kind \notin {"command", "compress"}
                  /\ \A j \in i + 1 .. Len(wire) :
                        wire[j].kind \notin HandshakeKinds \cup {"compress"}
            /\ ( /\ wire[i].kind = "command"
                 /\ wire[i].cmd = Command.COM_QUERY
                 /\ "CLIENT_COMPRESS" \in capability_flags
                 /\ \A j \in 1 .. i - 1 : wire[j].kind # "command" ) =>
                  /\ i > 1
                  /\ wire[i - 1].kind = "compress"
            /\ ( /\ wire[i].kind = "command"
                 /\ "CLIENT_COMPRESS" \notin capability_flags ) =>
                  ~Wrote("compress")

C24_Witness ==
    /\ last_op.op = "new"
    /\ connected
    /\ Wrote("compress")
    /\ Wrote("make_secure")
    /\ Wrote("encrypted_password") \/ Wrote("cleartext_password")

\* the last operation wrote the command `cmd`
WroteCmd(cmd) ==
    \E i \in DOMAIN wire : wire[i].kind = "command" /\ wire[i].cmd = cmd

\* C25: connected becomes true only after the handshake has succeeded and a
\* non-zero max_allowed_packet has been fetched and stored in the codec; a
\* handshake that fails, or a value that is missing, NULL, unparsable or
\* zero (SetupError), leaves connected false; a connected Conn has its
\* transport.
C25_ConnectedAfterSetup ==
    /\ (connected /\ ~dropped) =>
          /\ stream # None
          /\ max_allowed_packet # None
          /\ Unwrap(max_allowed_packet) > 0
    /\ last_op.op = "new" =>
          /\ connected <=> last_op.ok
          /\ connected =>
                /\ Wrote("handshake_response")
                /\ WroteCmd(Command.COM_QUERY)
                /\ last_op.ret > 0
          /\ (WroteCmd(Command.COM_QUERY) /\ last_op.ret = 0) =>
                /\ last_op.err \in {"SetupError", "IoError", "MySqlError"}
                /\ max_allowed_packet = None
          /\ last_op.err = "SetupError" =>
                WroteCmd(Command.COM_QUERY) /\ last_op.ret = 0

C25_Witness ==
    /\ last_op.op = "new"
    /\ last_op.err = "SetupError"
    /\ ~connected
    /\ Wrote("handshake_response")
    /\ WroteCmd(Command.COM_QUERY)

\* the positions of the log at which an init command was sent
InitAt ==
    { i \in DOMAIN wire : /\ wire[i].kind = "command"
                          /\ wire[i].cmd = Command.COM_QUERY
                          /\ wire[i].arg > 0 }

\* the positions of the log at which a connection was set up: the packets
\* of a handshake and the queries of a system variable
SetupAt ==
    { i \in DOMAIN wire :
        \/ wire[i].kind \in HandshakeKinds \cup {"connect"}
        \/ /\ wire[i].kind = "command" /\ wire[i].cmd = Command.COM_QUERY
           /\ wire[i].arg = 0 }

\* the k-th init command that was sent
InitSent(k) ==
    wire[CHOOSE i \in InitAt : Cardinality({ j \in InitAt : j <= i }) = k].arg

IsOkReply(r) == r # None /\ Unwrap(r).b0 = OkByte

\* C26: Conn::new sends the init commands in the order of the list, after
\* the handshake, the query of max_allowed_packet and the attempt at the
\* socket; when one of them fails Conn::new returns that error and the
\* commands after it are not sent.
C26_InitCommandsInOrder ==
    last_op.op = "new" =>
        LET n == Cardinality(InitAt)
        IN  /\ n <= Len(opts.init)
            /\ \A k \in 1 .. n : InitSent(k) = opts.init[k]
            /\ \A i \in InitAt : \A j \in SetupAt : j < i
            /\ last_op.ok => n = Len(opts.init)
            /\ \A k \in 1 .. n :
                  IF IsOkReply(last_op.init[k])
                  THEN k = n => last_op.ok
                  ELSE /\ k = n
                       /\ ~last_op.ok
                       /\ last_op.err = IF Unwrap(last_op.init[k]) = ErrPkt
                                        THEN "MySqlError" ELSE "IoError"
            /\ (n > 0 /\ n < Len(opts.init)) => ~IsOkReply(last_op.init[n])

C26_Witness ==
    /\ last_op.op = "new"
    /\ Len(opts.init) = 2
    /\ Cardinality(InitAt) = 1
    /\ last_op.err = "MySqlError"
    /\ \E i \in InitAt : wire[i].stream = "socket"

\* Conn::new with prefer_socket and no socket named by the caller (a socket
\* in the Opts is then the one the server named), whose TCP connection was
\* set up and which has no init command to run
TriedSocket ==
    /\ last_op.op = "new"
    /\ opts.prefer_socket
    /\ opts.socket # Some("/tmp/mysql.sock")
    /\ opts.init = <<>>
    /\ IsOkReply(last_op.auth[1])

\* the i-th entry of the log is the command `cmd`, sent over `transport`
CmdOn(i, cmd, transport) ==
    /\ wire[i].kind = "command" /\ wire[i].cmd = cmd
    /\ wire[i].stream = transport

\* C27: with prefer_socket on a loopback address no failure on the way to
\* the socket (the query of @@socket, the connection, its handshake) makes
\* Conn::new fail: it returns the TCP connection; the TCP connection is
\* given up only after the one over the socket has been set up in full.
C27_SocketFailuresSilent ==
    TriedSocket =>
        /\ last_op.ok /\ connected /\ ~dropped
        /\ stream \in { Some("tcp"), Some("socket") }
        /\ \A i \in DOMAIN wire :
              CmdOn(i, Command.COM_QUIT, "tcp") =>
                  /\ stream = Some("socket")
                  /\ \E j \in 1 .. i - 1 :
                        CmdOn(j, Command.COM_QUERY, "socket")

\* the positions of the log that hold a packet of the given kind
At(kind) == { i \in DOMAIN wire : wire[i].kind = kind }

\* the error a read of the packet `r` ends with, "" for an OK packet
ErrOf(r) ==
    IF IsOkReply(r) THEN ""
    ELSE IF r # None /\ Unwrap(r) = ErrPkt THEN "MySqlError" ELSE "IoError"

\* C28: a query the server answers with a LOCAL INFILE request always ends
\* the exchange: with or without a handler, and whether the handler returns
\* Ok or Err, the client writes exactly one empty packet after the data
\* frames and then reads the server's final packet, which decides how the
\* query ends.
C28_InfileAlwaysTerminated ==
    (last_op.op = "query" /\ last_op.infile # None) =>
        /\ Cardinality(At("infile_end")) = 1
        /\ \A i \in At("infile_data") : \A j \in At("infile_end") : i < j
        /\ last_op.err = ErrOf(Unwrap(last_op.infile).final)

\* the threads that are inside the handler
InHandler == { t \in Threads : pc[t].at = "handler" }

\* C29: of the threads whose connections share one LOCAL INFILE handler at
\* most one is inside the handler at any time: the mutex is held from the
\* lock to the return of the call, by the thread that is inside, and it is
\* free when none is.
C29_OneHandlerCallAtATime ==
    /\ Cardinality(InHandler) <= 1
    /\ \A t \in Threads : pc[t].at = "handler" <=> mutex = Some(t)
    /\ InHandler = {} => mutex = None

C29_Witness ==
    \E t, u \in Threads :
        /\ pc[t].at = "handler" /\ pc[t].frames > 0
        /\ pc[u].at = "lock"
        /\ mutex = Some(t)

\* the commands of the log, each with its argument
Commands == [i \in DOMAIN wire |-> << wire[i].cmd, wire[i].arg >>]

\* C30: a drop writes one COM_STMT_CLOSE for every statement of the cache,
\* then COM_QUIT exactly when there is a transport, and then lets go of
\* the transport; a write that fails is ignored and the steps after it are
\* still taken: on a link that is down nothing leaves, COM_QUIT is the last
\* command tried, and the transport is let go of all the same.
C30_DropClosesThenQuits ==
    (last_op.op = "drop" /\ last_op.ok) =>
        LET stmts == last_op.before[1]
            had_stream == last_op.before[2] # None
            up == last_op.before[3] = "up"
        IN  /\ dropped /\ stream = None /\ stmt_cache = StmtCacheNew
            /\ (had_stream /\ up) =>
                  Commands =
                      [i \in DOMAIN stmts |->
                          << Command.COM_STMT_CLOSE, stmts[i].id >>]
                      \o << << Command.COM_QUIT, 0 >> >>
            /\ (had_stream /\ ~up) =>
                  wire = <<>> /\ last_command = Command.COM_QUIT
            /\ ~had_stream => wire = <<>>

C30_Witness ==
    /\ last_op.op = "drop" /\ last_op.ok
    /\ Len(last_op.before[1]) = 2
    /\ last_op.before[3] = "up"
    /\ Len(wire) = 3

Returned == { h \in handles : h.id = last_op.ret }

\* C32: two queries with named parameters that are rewritten to the same
\* text share one entry of the cache and one statement of the server: the
\* second prep finds the entry and writes no COM_STMT_PREPARE; the
\* Statement each prep returns keeps the names of its own query, and an
\* exec with named parameters looks for the names of the Statement it is
\* given.
C32_NamesOfItsOwnQuery ==
    /\ \A i, j \in DOMAIN stmt_cache :
          stmt_cache[i].query = stmt_cache[j].query => i = j
    /\ \A i \in DOMAIN stmt_cache :
          \A k \in DOMAIN stmt_cache[i].query :
              stmt_cache[i].query[k].kind # "name"
    /\ (last_op.op = "prep" /\ last_op.ok) =>
          LET query == last_op.call[1]
          IN  /\ \E i \in DOMAIN stmt_cache :
                    /\ stmt_cache[i].query = parse_named_params(query).real_query
                    /\ stmt_cache[i].stmt.id = last_op.ret
              /\ last_op.hit <=> ~WroteCmd(Command.COM_STMT_PREPARE)
              /\ \E h \in Returned : h.named_params =
                     (IF NamesOf(query) = <<>> THEN None
                      ELSE Some(NamesOf(query)))
    /\ (last_op.op = "exec" /\ last_op.call[2].kind = "Named"
           /\ last_op.call[1] # None) =>
          (last_op.err = "MissingNamedParameter" <=>
              \E i \in DOMAIN Unwrap(last_op.call[1]) :
                  Unwrap(last_op.call[1])[i] \notin last_op.call[2].names)

\* :foo and :bar share the statement: the prep of the second was served by
\* the cache, and the caller holds two Statements with one id and the
\* names of their own
C32_Witness ==
    /\ last_op.op = "prep" /\ last_op.ok /\ last_op.hit
    /\ \E h, g \in handles :
          /\ h.id = g.id /\ h.id = last_op.ret
          /\ h.named_params = Some(<< "foo" >>)
          /\ g.named_params = Some(<< "bar" >>)

\* C40: close writes COM_STMT_CLOSE only for a statement no other
\* Statement of the caller refers to: after a close that wrote the command,
\* none of the Statements the caller still holds has the id that was
\* closed, so an exec of any of them targets a statement the server holds.
C40_CloseSparesSharedStatement ==
    (last_op.op = "close" /\ WroteCmd(Command.COM_STMT_CLOSE)) =>
        \A h \in handles :
            h.connection_id = connection_id => h.id # last_op.arg

\* a close has just returned Ok
Closed == last_op.op = "close" /\ last_op.ok

\* C33: a close removes the entry of the cache that holds the statement's
\* id and writes COM_STMT_CLOSE, once, and reads no reply; a prep of the
\* same query that follows finds no entry and sends a new
\* COM_STMT_PREPARE, so that prep and close can follow each other again
\* and again.
C33_CloseThenPrepareAnew ==
    /\ [](Closed =>
            /\ Commands = << << Command.COM_STMT_CLOSE, last_op.arg >> >>
            /\ reads = 0
            /\ \A i \in DOMAIN stmt_cache :
                  stmt_cache[i].stmt.id # last_op.arg)
    /\ [][(/\ Closed
           /\ last_op'.op = "prep" /\ last_op'.ok
           /\ last_op.call = << last_op'.arg >>)
          => (/\ ~last_op'.hit
              /\ \E i \in DOMAIN wire' :
                    /\ wire'[i].cmd = Command.COM_STMT_PREPARE
                    /\ wire'[i].arg = last_op'.arg
              /\ last_op'.ret # last_op.arg)]_vars

\* the statement of a query that was prepared, closed and prepared again
\* is closed in its turn
C33_Witness ==
    /\ Closed
    /\ last_op.call # <<>>
    /\ last_op.arg > 1
    /\ srv_prepared = 2
    /\ stmt_cache = <<>>

\* the packet is the terminator of a result set: first byte 0xfe, shorter
\* than 0xfe bytes
IsTerminator(pkt) == pkt.b0 = EofByte /\ pkt.len < 254

\* C34: while has_results is set a call of next_text or next_bin reads one
\* packet; a packet of fewer than 0xfe bytes that begins with 0xfe ends the
\* set: has_results is cleared, last_ok and status_flags are taken from it
\* and the call returns None; a packet of 0xfe bytes or more that begins
\* with 0xfe is returned as a row, like every other row; once has_results
\* is cleared a call returns None and reads nothing.
C34_RowsUntilTheTerminator ==
    last_op.op = "next_row" =>
        IF ~last_op.before[1]
        THEN /\ last_op.ok /\ last_op.ret = None
             /\ reads = 0 /\ wire = <<>>
             /\ ~has_results
        ELSE LET pkt == Unwrap(last_op.call[1]) IN
             /\ wire = <<>>
             /\ reads = (IF pkt.b0 = TimedOutByte THEN 0 ELSE 1)
             /\ (pkt.b0 \notin {TimedOutByte, ErrByte} /\ IsTerminator(pkt)) =>
                    /\ last_op.ok /\ last_op.ret = None
                    /\ ~has_results
                    /\ ok_packet = pkt.ok
                    /\ status_flags = Unwrap(pkt.ok).status_flags
             /\ (pkt.b0 \notin {TimedOutByte, ErrByte} /\ ~IsTerminator(pkt)) =>
                    /\ last_op.ok /\ last_op.ret = Some(pkt)
                    /\ has_results

\* a row of 0xfe bytes that begins with 0xfe has been returned
C34_Witness ==
    /\ last_op.op = "next_row" /\ last_op.ok
    /\ last_op.before = << TRUE >>
    /\ last_op.ret = Some(LongRowPkt)
    /\ has_results

\* an exec has written all it had to write: it returned Ok or the server's
\* error
ExecWritten == last_op.op = "exec" /\ last_op.err \in {"", "MySqlError"}

\* the COM_STMT_SEND_LONG_DATA commands of the last operation: statement
\* id, index of the parameter, offset and length of the chunk
LongDataSent ==
    LET at == SelectSeq([i \in DOMAIN wire |-> i],
                        LAMBDA i : wire[i].cmd = Command.COM_STMT_SEND_LONG_DATA)
    IN  [j \in DOMAIN at |-> wire[at[j]].arg]

\* C35: when the parameters of an execute go as long data, every
\* COM_STMT_SEND_LONG_DATA is written before COM_STMT_EXECUTE, in the order
\* of the parameters; a byte parameter of n bytes is sent in
\* max(1, ceil(n / (MAX_PAYLOAD_LEN - 6))) commands (one command without
\* data for n = 0), each with at most MAX_PAYLOAD_LEN - 6 bytes, the chunks
\* following each other from the first byte to the last; a parameter that
\* is no byte value is sent in no such command.
C35_LongDataInChunksBeforeExecute ==
    ExecWritten =>
        LET params == last_op.call[2]
            stmt == last_op.call[3]
            size == MAX_PAYLOAD_LEN - 6
            sent == LongDataSent
        IN  /\ Commands = [j \in DOMAIN sent |->
                              << Command.COM_STMT_SEND_LONG_DATA, sent[j] >>]
                           \o << << Command.COM_STMT_EXECUTE, stmt.id >> >>
            /\ ~last_op.call[4] => sent = <<>>
            /\ last_op.call[4] =>
                  /\ \A j \in DOMAIN sent :
                        /\ sent[j][1] = stmt.id
                        /\ sent[j][2] \in DOMAIN params.bytes
                        /\ sent[j][4] <= size
                        /\ \A k \in DOMAIN sent :
                              j < k => sent[j][2] <= sent[k][2]
                  /\ \A i \in DOMAIN params.bytes :
                        LET n == params.bytes[i]
                            mine == SelectSeq(sent, LAMBDA a : a[2] = i)
                            ceil == (n + size - 1) \div size
                        IN  /\ Len(mine) = IF ceil < 1 THEN 1 ELSE ceil
                            /\ mine[1][3] = 0
                            /\ \A j \in 1 .. Len(mine) - 1 :
                                  mine[j + 1][3] = mine[j][3] + mine[j][4]
                            /\ mine[Len(mine)][3] + mine[Len(mine)][4] = n

\* two byte parameters have gone as long data, the first empty, the second
\* one byte longer than a chunk
C35_Witness ==
    /\ ExecWritten /\ last_op.ok
    /\ last_op.call[4]
    /\ last_op.call[2].bytes =
          [i \in 0 .. 1 |-> IF i = 0 THEN 0 ELSE MAX_PAYLOAD_LEN - 5]
    /\ Len(LongDataSent) = 3

\* C37: an exec with a positional list of n values on a statement whose
\* num_params differs from n fails with MismatchedStmtParams and writes
\* nothing, for every n, the lengths of 65536 and more included: the
\* lengths are compared as they are, not modulo 2^16.
C37_MismatchedLengthRejected ==
    (/\ last_op.op = "exec"
     /\ last_op.call[2].kind = "Positional"
     /\ last_op.call[3].num_params # last_op.call[2].n)
        => (last_op.err = "MismatchedStmtParams" /\ wire = <<>>)

\* C36: the lock of the handler's mutex in send_local_infile never panics,
\* whatever the connections that share the handler and whatever became of
\* the handler on them, a panic of the handler during an earlier call on
\* another connection included: the mutex is not poisoned when it is
\* locked.
C36_LockNeverPanics ==
    \A t \in Threads :
        /\ pc[t].at # "unwrap_panicked"
        /\ pc[t].at = "lock" => ~poisoned

\* C38: the capability word of the SSL request equals the negotiated
\* capability_flags that the HandshakeResponse of the same handshake
\* carries, and so it holds no bit that the server has not advertised.
C38_SslRequestCarriesNegotiatedFlags ==
    \A i \in DOMAIN wire :
        wire[i].kind = "ssl_request" =>
            /\ \A j \in DOMAIN wire :
                  (j > i /\ wire[j].kind = "handshake_response"
                         /\ \A k \in i + 1 .. j - 1 :
                               wire[k].kind # "ssl_request")
                     => wire[i].arg = wire[j].arg.capabilities
            /\ last_op.op = "new" =>
                  wire[i].arg \subseteq Unwrap(last_op.hp).capabilities

\* a reset has returned an error and none has succeeded since: hard_reset
\* clears connected, and only a connect that succeeds sets it again
ResetFailed == last_op.op # "empty" /\ ~connected

\* C39: after a reset that returned an error every later operation on the
\* Conn (ping, select_db, query, prep, exec, close, reset, drop) returns
\* an error or false and does not panic: no command is written and no
\* packet is read on a transport that is absent.
C39_NoPanicAfterFailedReset ==
    ResetFailed =>
        /\ ~panicked
        /\ last_op.op # "drop" => ~last_op.ok
        /\ stream = None => (wire = <<>> /\ reads = 0) \/ last_op.op = "reset"

====
